---- MODULE Spec2Model ----
(***************************************************************************)
(* Xiangqi rules engine and minimax search (src/utils/xiangqi.ts, which    *)
(* also holds the search of utils/ai from line 254 on), and the game loop  *)
(* of the App components (src/App.tsx, src/unnamed/part_000).              *)
(*                                                                         *)
(* A board is a function row -> column -> cell, rows 0..9 and columns 0..8 *)
(* as in BoardState; a cell is a Piece record or Null. A position is a    *)
(* record [x, y], a move a record [from, to]. The FEN text is a sequence   *)
(* of one-character strings.                                               *)
(***************************************************************************)
EXTENDS Integers, Sequences, FiniteSets, TLC

VARIABLES
    board,      \* the current BoardState
    turn,       \* the Color to move
    ply,        \* number of moves applied to the board so far (in the App:
                \* by the player)
    lastOp,     \* the operation called last ("init" before the first call)
    arg,        \* the argument of that call besides board and turn
    ret,        \* what that call returned
    gameStatus, \* the GameStatus the App shows
    selectedPos,\* the square the player has selected, or NullPos
    aiTimers,   \* the pending timers of the AI turn effect, each with the
                \* board of the render that set it
    aiThinking, \* the aiThinking flag of the App of part_000
    version,    \* which of the three App components is running
    stack       \* the call stack of the engine, innermost call last

appVars == <<gameStatus, selectedPos, aiTimers, aiThinking, version, stack>>

vars == <<board, turn, ply, lastOp, arg, ret, gameStatus, selectedPos, aiTimers, aiThinking,
          version, stack>>

\* ---------------------------------------------------------------- types.ts
RED == "r"
BLACK == "b"

GENERAL == "k"
ADVISOR == "a"
ELEPHANT == "b"
HORSE == "n"
ROOK == "r"
CANNON == "c"
SOLDIER == "p"

PieceTypes == {GENERAL, ADVISOR, ELEPHANT, HORSE, ROOK, CANNON, SOLDIER}

PLAYING == "playing"
RED_WIN == "red_win"
BLACK_WIN == "black_win"
DRAW == "draw"

\* null cell, and the null Move
Null == [type |-> "null", color |-> "null", id |-> <<>>]
NullMove == [from |-> [x |-> -1, y |-> -1], to |-> [x |-> -1, y |-> -1]]

Rows == 0..9
Cols == 0..8

Pos(x, y) == [x |-> x, y |-> y]
Mv(f, t) == [from |-> f, to |-> t]

\* the cells in the order of the nested loops `for y ... for x ...`
AllCells == [i \in 1..90 |-> Pos((i - 1) % 9, (i - 1) \div 9)]

EmptyBoard == [y \in Rows |-> [x \in Cols |-> Null]]

Abs(n) == IF n < 0 THEN -n ELSE n
Min(a, b) == IF a < b THEN a ELSE b
Max(a, b) == IF a > b THEN a ELSE b

\* ------------------------------------------------------------ rules engine
isPosEqual(p1, p2) == p1.x = p2.x /\ p1.y = p2.y

isValidPos(p) == p.x >= 0 /\ p.x <= 8 /\ p.y >= 0 /\ p.y <= 9

getPieceAt(b, pos) == IF ~isValidPos(pos) THEN Null ELSE b[pos.y][pos.x]

\* as countPiecesBetween, but the loops run up to and including max
countPiecesBetweenInclusive(b, p1, p2) ==
    IF p1.x = p2.x
    THEN Cardinality({y \in (Min(p1.y, p2.y) + 1)..Max(p1.y, p2.y) : b[y][p1.x] # Null})
    ELSE IF p1.y = p2.y
    THEN Cardinality({x \in (Min(p1.x, p2.x) + 1)..Max(p1.x, p2.x) : b[p1.y][x] # Null})
    ELSE 0

countPiecesBetween(b, p1, p2) ==
    IF p1.x = p2.x
    THEN Cardinality({y \in (Min(p1.y, p2.y) + 1)..(Max(p1.y, p2.y) - 1) : b[y][p1.x] # Null})
    ELSE IF p1.y = p2.y
    THEN Cardinality({x \in (Min(p1.x, p2.x) + 1)..(Max(p1.x, p2.x) - 1) : b[p1.y][x] # Null})
    ELSE 0

\* isValidMove with one slip, named by slip, for the variants below
isValidMoveWith(b, move, turnColor, slip) ==
    LET from == move.from
        to == move.to
        piece == getPieceAt(b, from)
        target == getPieceAt(b, to)
        dx == to.x - from.x
        dy == to.y - from.y
        adx == Abs(dx)
        ady == Abs(dy)
        inPalace == /\ to.x >= 3 /\ to.x <= 5
                    /\ \/ slip = "palaceRows"
                       \/ (piece.color = BLACK /\ to.y <= 2)
                       \/ (piece.color = RED /\ to.y >= 7)
    IN  IF piece = Null \/ piece.color # turnColor THEN FALSE
        ELSE IF ~isValidPos(to) THEN FALSE
        ELSE IF from.x = to.x /\ from.y = to.y THEN FALSE
        ELSE IF slip # "friendly" /\ target # Null /\ target.color = turnColor THEN FALSE
        ELSE CASE piece.type = GENERAL -> inPalace /\ adx + ady = 1
               [] piece.type = ADVISOR -> inPalace /\ adx = 1 /\ ady = 1
               [] piece.type = ELEPHANT ->
                    IF slip # "elephantRiver" /\ piece.color = BLACK /\ to.y > 4 THEN FALSE
                    ELSE IF slip # "elephantRiver" /\ piece.color = RED /\ to.y < 5 THEN FALSE
                    ELSE IF adx # 2 \/ ady # 2 THEN FALSE
                    ELSE getPieceAt(b, Pos(from.x + dx \div 2, from.y + dy \div 2)) = Null
               [] piece.type = HORSE ->
                    IF ~((adx = 1 /\ ady = 2) \/ (adx = 2 /\ ady = 1)) THEN FALSE
                    ELSE LET legPos == Pos(IF adx = 2 THEN from.x + dx \div 2 ELSE from.x,
                                           IF ady = 2 THEN from.y + dy \div 2 ELSE from.y)
                             shortPos == Pos(IF adx = 1 THEN from.x + dx ELSE from.x,
                                             IF ady = 1 THEN from.y + dy ELSE from.y)
                         IN  CASE slip = "noLeg" -> TRUE
                               [] slip = "legShortAxis" -> getPieceAt(b, shortPos) = Null
                               [] OTHER -> getPieceAt(b, legPos) = Null
               [] piece.type = ROOK ->
                    IF from.x # to.x /\ from.y # to.y THEN FALSE
                    ELSE countPiecesBetween(b, from, to) = 0
               [] piece.type = CANNON ->
                    IF from.x # to.x /\ from.y # to.y THEN FALSE
                    ELSE LET cnt == countPiecesBetween(b, from, to)
                         IN  IF target # Null
                             THEN (IF slip = "cannonScreens" THEN cnt >= 1 ELSE cnt = 1)
                             ELSE cnt = 0
               [] piece.type = SOLDIER ->
                    LET forward == IF piece.color = RED THEN -1 ELSE 1
                        crossedRiver == IF piece.color = RED THEN from.y <= 4 ELSE from.y >= 5
                    IN  IF piece.color = RED /\ dy > 0 THEN FALSE
                        ELSE IF piece.color = BLACK /\ dy < 0 THEN FALSE
                        ELSE IF ~crossedRiver /\ slip # "soldierSideways" THEN dx = 0 /\ dy = forward
                        ELSE Abs(dx) + Abs(dy) = 1
               [] OTHER -> FALSE

\* as isValidMove, but a piece may take a piece of its own colour
isValidMoveFriendlyFire(b, move, turnColor) == isValidMoveWith(b, move, turnColor, "friendly")

\* as isValidMove, but the Horse's leg is looked for along the short axis
isValidMoveLegShortAxis(b, move, turnColor) == isValidMoveWith(b, move, turnColor, "legShortAxis")

\* as isValidMove, but the Horse's leg is not looked at
isValidMoveNoLeg(b, move, turnColor) == isValidMoveWith(b, move, turnColor, "noLeg")

\* as isValidMove, but a Cannon takes over any number of screens from 1 on
isValidMoveCannonScreens(b, move, turnColor) == isValidMoveWith(b, move, turnColor, "cannonScreens")

\* as isValidMove, but a Soldier steps sideways before it crossed the river
isValidMoveSoldierSideways(b, move, turnColor) == isValidMoveWith(b, move, turnColor, "soldierSideways")

\* as isValidMove, but an Elephant is not held back by the river
isValidMoveElephantRiver(b, move, turnColor) == isValidMoveWith(b, move, turnColor, "elephantRiver")

\* as isValidMove, but the rows of the palace are not tested
isValidMovePalaceRows(b, move, turnColor) == isValidMoveWith(b, move, turnColor, "palaceRows")

isValidMove(b, move, turnColor) ==
    LET from == move.from
        to == move.to
        piece == getPieceAt(b, from)
        target == getPieceAt(b, to)
        dx == to.x - from.x
        dy == to.y - from.y
        adx == Abs(dx)
        ady == Abs(dy)
    IN  IF piece = Null \/ piece.color # turnColor THEN FALSE
        ELSE IF ~isValidPos(to) THEN FALSE
        ELSE IF from.x = to.x /\ from.y = to.y THEN FALSE
        ELSE IF target # Null /\ target.color = turnColor THEN FALSE
        ELSE CASE piece.type = GENERAL ->
                    IF to.x < 3 \/ to.x > 5 THEN FALSE
                    ELSE IF piece.color = BLACK /\ to.y > 2 THEN FALSE
                    ELSE IF piece.color = RED /\ to.y < 7 THEN FALSE
                    ELSE adx + ady = 1
               [] piece.type = ADVISOR ->
                    IF to.x < 3 \/ to.x > 5 THEN FALSE
                    ELSE IF piece.color = BLACK /\ to.y > 2 THEN FALSE
                    ELSE IF piece.color = RED /\ to.y < 7 THEN FALSE
                    ELSE adx = 1 /\ ady = 1
               [] piece.type = ELEPHANT ->
                    IF piece.color = BLACK /\ to.y > 4 THEN FALSE
                    ELSE IF piece.color = RED /\ to.y < 5 THEN FALSE
                    ELSE IF adx # 2 \/ ady # 2 THEN FALSE
                    ELSE IF getPieceAt(b, Pos(from.x + dx \div 2, from.y + dy \div 2)) # Null THEN FALSE
                    ELSE TRUE
               [] piece.type = HORSE ->
                    IF ~((adx = 1 /\ ady = 2) \/ (adx = 2 /\ ady = 1)) THEN FALSE
                    ELSE LET legPos == Pos(IF adx = 2 THEN from.x + dx \div 2 ELSE from.x,
                                           IF ady = 2 THEN from.y + dy \div 2 ELSE from.y)
                         IN  IF getPieceAt(b, legPos) # Null THEN FALSE ELSE TRUE
               [] piece.type = ROOK ->
                    IF from.x # to.x /\ from.y # to.y THEN FALSE
                    ELSE countPiecesBetween(b, from, to) = 0
               [] piece.type = CANNON ->
                    IF from.x # to.x /\ from.y # to.y THEN FALSE
                    ELSE LET cnt == countPiecesBetween(b, from, to)
                         IN  IF target # Null THEN cnt = 1 ELSE cnt = 0
               [] piece.type = SOLDIER ->
                    LET forward == IF piece.color = RED THEN -1 ELSE 1
                        crossedRiver == IF piece.color = RED THEN from.y <= 4 ELSE from.y >= 5
                    IN  IF piece.color = RED /\ dy > 0 THEN FALSE
                        ELSE IF piece.color = BLACK /\ dy < 0 THEN FALSE
                        ELSE IF ~crossedRiver THEN dx = 0 /\ dy = forward
                        ELSE Abs(dx) + Abs(dy) = 1
               [] OTHER -> FALSE

\* A BoardState is an array of row arrays. rowsHeap is the sequence of the row
\* arrays allocated so far and a board object is a function from the row
\* index to the address of its row array, so that two board objects can
\* share rows. load(b) allocates the rows of the board value b.
load(b) == [heap |-> [a \in 1..10 |-> b[a - 1]], board |-> [y \in Rows |-> y + 1]]

\* the board value a board object denotes
deref(rowsHeap, boardObj) ==
    LET row(y) == rowsHeap[boardObj[y]]
    IN  (0 :> row(0)) @@ (1 :> row(1)) @@ (2 :> row(2)) @@ (3 :> row(3)) @@ (4 :> row(4))
        @@ (5 :> row(5)) @@ (6 :> row(6)) @@ (7 :> row(7)) @@ (8 :> row(8)) @@ (9 :> row(9))

\* as copyRows, but [...board]: a new outer array over the same row arrays
copyRowsShallow(rowsHeap, boardObj) == [heap |-> rowsHeap, board |-> boardObj]

\* board.map(row => [...row]): ten fresh row arrays, copies of the old ones
copyRows(rowsHeap, boardObj) ==
    [heap |-> rowsHeap \o [i \in 1..10 |-> rowsHeap[boardObj[i - 1]]],
     board |-> [y \in Rows |-> Len(rowsHeap) + y + 1]]

\* as simulateMoveHeap, but the source cell is not cleared
simulateMoveHeapKeep(rowsHeap, boardObj, move) ==
    LET copy == copyRows(rowsHeap, boardObj)
        newBoard == copy.board
        toRow == newBoard[move.to.y]
        fromRow == newBoard[move.from.y]
    IN  [heap |-> [copy.heap EXCEPT ![toRow][move.to.x] = copy.heap[fromRow][move.from.x]],
         board |-> newBoard]

\* simulateMove on the heap: the heap after the call and the object returned
simulateMoveHeap(rowsHeap, boardObj, move) ==
    LET copy == copyRows(rowsHeap, boardObj)
        newBoard == copy.board
        toRow == newBoard[move.to.y]
        fromRow == newBoard[move.from.y]
        h1 == [copy.heap EXCEPT ![toRow][move.to.x] = copy.heap[fromRow][move.from.x]]
        h2 == [h1 EXCEPT ![fromRow][move.from.x] = Null]
    IN  [heap |-> h2, board |-> newBoard]

\* the board simulateMove returns
simulateMove(b, move) ==
    LET in == load(b)
        out == simulateMoveHeap(in.heap, in.board, move)
    IN  deref(out.heap, out.board)

\* the argument board of simulateMove as it reads after the call
inputAfterSimulate(b, move) ==
    LET in == load(b)
        out == simulateMoveHeap(in.heap, in.board, move)
    IN  deref(out.heap, in.board)

\* first General of the colour in row-major order, or NullPos
NullPos == Pos(-1, -1)

findGeneral(b, color) ==
    LET found == SelectSeq(AllCells, LAMBDA c :
                     b[c.y][c.x] # Null /\ b[c.y][c.x].type = GENERAL /\ b[c.y][c.x].color = color)
    IN  IF found = <<>> THEN NullPos ELSE Head(found)

areGeneralsFacing(b) ==
    LET rGen == findGeneral(b, RED)
        bGen == findGeneral(b, BLACK)
    IN  IF rGen = NullPos \/ bGen = NullPos THEN FALSE
        ELSE IF rGen.x = bGen.x /\ countPiecesBetween(b, rGen, bGen) = 0 THEN TRUE
        ELSE FALSE

\* the cells the code indexes the board at, board[y][x]: by getPieceAt,
\* by countPiecesBetween and by isValidMove as a whole
indexedByGetPieceAt(pos) == IF ~isValidPos(pos) THEN {} ELSE {pos}

indexedByCountPiecesBetween(p1, p2) ==
    IF p1.x = p2.x
    THEN {Pos(p1.x, y) : y \in (Min(p1.y, p2.y) + 1)..(Max(p1.y, p2.y) - 1)}
    ELSE IF p1.y = p2.y
    THEN {Pos(x, p1.y) : x \in (Min(p1.x, p2.x) + 1)..(Max(p1.x, p2.x) - 1)}
    ELSE {}

indexedByIsValidMove(b, move, turnColor) ==
    LET from == move.from
        to == move.to
        piece == getPieceAt(b, from)
        target == getPieceAt(b, to)
        dx == to.x - from.x
        dy == to.y - from.y
        adx == Abs(dx)
        ady == Abs(dy)
        basic == indexedByGetPieceAt(from) \cup indexedByGetPieceAt(to)
    IN  IF piece = Null \/ piece.color # turnColor THEN basic
        ELSE IF ~isValidPos(to) THEN basic
        ELSE IF from.x = to.x /\ from.y = to.y THEN basic
        ELSE IF target # Null /\ target.color = turnColor THEN basic
        ELSE CASE piece.type = ELEPHANT ->
                    IF (piece.color = BLACK /\ to.y > 4) \/ (piece.color = RED /\ to.y < 5)
                       \/ adx # 2 \/ ady # 2
                    THEN basic
                    ELSE basic \cup indexedByGetPieceAt(Pos(from.x + dx \div 2, from.y + dy \div 2))
               [] piece.type = HORSE ->
                    IF ~((adx = 1 /\ ady = 2) \/ (adx = 2 /\ ady = 1)) THEN basic
                    ELSE basic \cup indexedByGetPieceAt(
                                        Pos(IF adx = 2 THEN from.x + dx \div 2 ELSE from.x,
                                            IF ady = 2 THEN from.y + dy \div 2 ELSE from.y))
               [] piece.type \in {ROOK, CANNON} ->
                    IF from.x # to.x /\ from.y # to.y THEN basic
                    ELSE basic \cup indexedByCountPiecesBetween(from, to)
               [] OTHER -> basic

\* as isCheck, but without the early return for a General that is not found
isCheckNoNullGuard(b, color) ==
    LET generalPos == findGeneral(b, color)
        enemyColor == IF color = RED THEN BLACK ELSE RED
    IN  \E i \in 1..90 :
            LET c == AllCells[i]
                p == b[c.y][c.x]
            IN  /\ p # Null
                /\ p.color = enemyColor
                /\ isValidMove(b, Mv(c, generalPos), enemyColor)

isCheck(b, color) ==
    LET generalPos == findGeneral(b, color)
        enemyColor == IF color = RED THEN BLACK ELSE RED
    IN  IF generalPos = NullPos THEN TRUE
        ELSE \E i \in 1..90 :
                LET c == AllCells[i]
                    p == b[c.y][c.x]
                IN  /\ p # Null
                    /\ p.color = enemyColor
                    /\ isValidMove(b, Mv(c, generalPos), enemyColor)

RECURSIVE concatRange(_, _, _)
\* ss[lo] \o ... \o ss[hi]
concatRange(ss, lo, hi) ==
    IF lo > hi THEN <<>>
    ELSE IF lo = hi THEN ss[lo]
    ELSE LET mid == (lo + hi) \div 2
         IN  concatRange(ss, lo, mid) \o concatRange(ss, mid + 1, hi)

\* as movesFrom, but without the areGeneralsFacing test
movesFromNoFacing(b, turnColor, src) ==
    LET ok(t) == /\ isValidMove(b, Mv(src, t), turnColor)
                 /\ ~isCheck(simulateMove(b, Mv(src, t)), turnColor)
        dests == SelectSeq(AllCells, ok)
    IN  [i \in 1..Len(dests) |-> Mv(src, dests[i])]

\* as movesFrom, but without the isCheck test
movesFromNoCheck(b, turnColor, src) ==
    LET ok(t) == /\ isValidMove(b, Mv(src, t), turnColor)
                 /\ ~areGeneralsFacing(simulateMove(b, Mv(src, t)))
        dests == SelectSeq(AllCells, ok)
    IN  [i \in 1..Len(dests) |-> Mv(src, dests[i])]

\* the moves of one source square, in the order of the inner loops
movesFrom(b, turnColor, src) ==
    LET ok(t) == /\ isValidMove(b, Mv(src, t), turnColor)
                 /\ LET tempBoard == simulateMove(b, Mv(src, t))
                    IN  ~isCheck(tempBoard, turnColor) /\ ~areGeneralsFacing(tempBoard)
        dests == SelectSeq(AllCells, ok)
    IN  [i \in 1..Len(dests) |-> Mv(src, dests[i])]

getValidMoves(b, turnColor) ==
    LET srcs == SelectSeq(AllCells, LAMBDA c :
                    b[c.y][c.x] # Null /\ b[c.y][c.x].color = turnColor)
    IN  concatRange([i \in 1..Len(srcs) |-> movesFrom(b, turnColor, srcs[i])], 1, Len(srcs))

\* as getGameStatus, but the side without moves is declared the winner
getGameStatusSwapped(b, turnColor) ==
    LET moves == getValidMoves(b, turnColor)
    IN  IF Len(moves) = 0
        THEN (IF turnColor = RED THEN RED_WIN ELSE BLACK_WIN)
        ELSE PLAYING

getGameStatus(b, turnColor) ==
    LET moves == getValidMoves(b, turnColor)
    IN  IF Len(moves) = 0
        THEN (IF turnColor = RED THEN BLACK_WIN ELSE RED_WIN)
        ELSE PLAYING

\* ------------------------------------------------------------ FEN converter
Digits == {"0", "1", "2", "3", "4", "5", "6", "7", "8", "9"}

\* String(emptyCount) for the counts 1..9 a row of nine cells can produce
DigitChar == <<"1", "2", "3", "4", "5", "6", "7", "8", "9">>

parseInt(ch) ==
    CASE ch = "0" -> 0 [] ch = "1" -> 1 [] ch = "2" -> 2 [] ch = "3" -> 3 [] ch = "4" -> 4
      [] ch = "5" -> 5 [] ch = "6" -> 6 [] ch = "7" -> 7 [] ch = "8" -> 8 [] ch = "9" -> 9

toUpperCase(ch) ==
    CASE ch = "k" -> "K" [] ch = "a" -> "A" [] ch = "b" -> "B" [] ch = "n" -> "N"
      [] ch = "r" -> "R" [] ch = "c" -> "C" [] ch = "p" -> "P" [] OTHER -> ch

toLowerCase(ch) ==
    CASE ch = "K" -> "k" [] ch = "A" -> "a" [] ch = "B" -> "b" [] ch = "N" -> "n"
      [] ch = "R" -> "r" [] ch = "C" -> "c" [] ch = "P" -> "p" [] OTHER -> ch

RECURSIVE fenRow(_, _, _, _)
RECURSIVE fenRowNoReset(_, _, _, _)
\* as fenRow, but emptyCount is not set back to 0 after it is written
fenRowNoReset(b, y, x, emptyCount) ==
    IF x > 8
    THEN (IF emptyCount > 0 THEN <<DigitChar[emptyCount]>> ELSE <<>>)
    ELSE LET p == b[y][x]
         IN  IF p = Null
             THEN fenRowNoReset(b, y, x + 1, emptyCount + 1)
             ELSE (IF emptyCount > 0 THEN <<DigitChar[emptyCount]>> ELSE <<>>)
                  \o <<IF p.color = RED THEN toUpperCase(p.type) ELSE toLowerCase(p.type)>>
                  \o fenRowNoReset(b, y, x + 1, emptyCount)

\* the text of row y from column x on, emptyCount empty cells pending
fenRow(b, y, x, emptyCount) ==
    IF x > 8
    THEN (IF emptyCount > 0 THEN <<DigitChar[emptyCount]>> ELSE <<>>)
    ELSE LET p == b[y][x]
         IN  IF p = Null
             THEN fenRow(b, y, x + 1, emptyCount + 1)
             ELSE (IF emptyCount > 0 THEN <<DigitChar[emptyCount]>> ELSE <<>>)
                  \o <<IF p.color = RED THEN toUpperCase(p.type) ELSE toLowerCase(p.type)>>
                  \o fenRow(b, y, x + 1, 0)

\* as fenRows, but from the last row to the first
fenRowsBottomUp(b) ==
    fenRow(b, 9, 0, 0) \o <<"/">> \o fenRow(b, 8, 0, 0) \o <<"/">> \o fenRow(b, 7, 0, 0)
        \o <<"/">> \o fenRow(b, 6, 0, 0) \o <<"/">> \o fenRow(b, 5, 0, 0) \o <<"/">>
        \o fenRow(b, 4, 0, 0) \o <<"/">> \o fenRow(b, 3, 0, 0) \o <<"/">> \o fenRow(b, 2, 0, 0)
        \o <<"/">> \o fenRow(b, 1, 0, 0) \o <<"/">> \o fenRow(b, 0, 0, 0)

\* the loop over y, unrolled: the rows with "/" between them
fenRows(b) ==
    fenRow(b, 0, 0, 0) \o <<"/">> \o fenRow(b, 1, 0, 0) \o <<"/">> \o fenRow(b, 2, 0, 0)
        \o <<"/">> \o fenRow(b, 3, 0, 0) \o <<"/">> \o fenRow(b, 4, 0, 0) \o <<"/">>
        \o fenRow(b, 5, 0, 0) \o <<"/">> \o fenRow(b, 6, 0, 0) \o <<"/">> \o fenRow(b, 7, 0, 0)
        \o <<"/">> \o fenRow(b, 8, 0, 0) \o <<"/">> \o fenRow(b, 9, 0, 0)

boardToFen(b, turnColor) ==
    fenRows(b) \o <<" ", IF turnColor = RED THEN "w" ELSE "b", " ", "-", " ", "-", " ", "0", " ", "1">>

\* String.prototype.split on a one-character separator: the parts between
\* the occurrences of sep, the k-th part from behind the (k-1)-th occurrence
split(s, sep) ==
    LET at == {i \in 1..Len(s) : s[i] = sep}
        nth(k) == IF k = 0 THEN 0
                  ELSE IF k > Cardinality(at) THEN Len(s) + 1
                  ELSE CHOOSE i \in at : Cardinality({j \in at : j <= i}) = k
    IN  [k \in 1..(Cardinality(at) + 1) |-> SubSeq(s, nth(k - 1) + 1, nth(k) - 1)]

\* Math.random(): the value drawn while cell (x, y) is filled, for one of
\* NumRandom possible runs of the generator
NumRandom == 2
RandomRuns == 0..(NumRandom - 1)
random(run, x, y) == (run + x + y) % NumRandom

EmptyRow == [x \in Cols |-> Null]

RECURSIVE parseRow(_, _, _, _, _)
\* the body of rows.forEach for the rest rowStr of row y, next column x;
\* row is board[y] so far
parseRow(row, rowStr, y, x, run) ==
    IF rowStr = <<>> THEN row
    ELSE LET char == Head(rowStr)
         IN  IF char \in Digits
             THEN parseRow(row, Tail(rowStr), y, x + parseInt(char), run)
             ELSE LET color == IF char = toUpperCase(char) THEN RED ELSE BLACK
                      type == toLowerCase(char)
                  IN  IF x < 9
                      THEN parseRow([row EXCEPT ![x] = [type |-> type, color |-> color,
                                                       id |-> <<x, y, random(run, x, y)>>]],
                                    Tail(rowStr), y, x + 1, run)
                      ELSE parseRow(row, Tail(rowStr), y, x, run)

\* rows.forEach: row y of the board is filled from rows[y] alone; a text of
\* fewer than ten rows leaves the other rows empty
fenToBoard(fenText, run) ==
    LET rows == split(split(fenText, " ")[1], "/")
        row(y) == IF y < Len(rows) THEN parseRow(EmptyRow, rows[y + 1], y, 0, run) ELSE EmptyRow
    IN  (0 :> row(0)) @@ (1 :> row(1)) @@ (2 :> row(2)) @@ (3 :> row(3)) @@ (4 :> row(4))
        @@ (5 :> row(5)) @@ (6 :> row(6)) @@ (7 :> row(7)) @@ (8 :> row(8)) @@ (9 :> row(9))

InitialLayout ==
    <<"r", "n", "b", "a", "k", "a", "b", "n", "r", "/", "9", "/",
      "1", "c", "5", "c", "1", "/", "p", "1", "p", "1", "p", "1", "p", "1", "p", "/",
      "9", "/", "9", "/", "P", "1", "P", "1", "P", "1", "P", "1", "P", "/",
      "1", "C", "5", "C", "1", "/", "9", "/", "R", "N", "B", "A", "K", "A", "B", "N", "R">>

createInitialBoard(run) == fenToBoard(InitialLayout, run)

\* ------------------------------------------------------------ search engine
\* as PIECE_VALUES, but a Rook is worth 9
PIECE_VALUES_CheapRook(type) ==
    CASE type = GENERAL -> 10000
      [] type = ROOK -> 9
      [] type = CANNON -> 45
      [] type = HORSE -> 40
      [] type = ELEPHANT -> 20
      [] type = ADVISOR -> 20
      [] type = SOLDIER -> 10

PIECE_VALUES(type) ==
    CASE type = GENERAL -> 10000
      [] type = ROOK -> 90
      [] type = CANNON -> 45
      [] type = HORSE -> 40
      [] type = ELEPHANT -> 20
      [] type = ADVISOR -> 20
      [] type = SOLDIER -> 10

getPositionBonus(piece, x, y) ==
    IF piece.type = SOLDIER /\ piece.color = BLACK /\ y > 4 THEN 20
    ELSE IF piece.type = SOLDIER /\ piece.color = RED /\ y < 5 THEN 20
    ELSE IF (piece.type = CANNON \/ piece.type = HORSE) /\ x >= 3 /\ x <= 5 THEN 5
    ELSE 0

\* what the loop body adds to score for cell (x, y)
cellScore(b, x, y) ==
    LET p == b[y][x]
    IN  IF p # Null
        THEN LET val == PIECE_VALUES(p.type) + getPositionBonus(p, x, y)
             IN  IF p.color = RED THEN val ELSE -val
        ELSE 0

\* the inner loop over x, unrolled
rowScore(b, y) ==
    cellScore(b, 0, y) + cellScore(b, 1, y) + cellScore(b, 2, y) + cellScore(b, 3, y)
        + cellScore(b, 4, y) + cellScore(b, 5, y) + cellScore(b, 6, y) + cellScore(b, 7, y)
        + cellScore(b, 8, y)

\* the outer loop over y, unrolled
evaluateBoard(b) ==
    rowScore(b, 0) + rowScore(b, 1) + rowScore(b, 2) + rowScore(b, 3) + rowScore(b, 4)
        + rowScore(b, 5) + rowScore(b, 6) + rowScore(b, 7) + rowScore(b, 8) + rowScore(b, 9)

\* Number.POSITIVE_INFINITY: above every score the search can produce
Infinity == 1000000000
MATE_SCORE == 100000

\* as captureValue, but moves that capture the same value are told apart by
\* the random part of the id of the piece that moves
captureValueById(b, m) ==
    LET target == getPieceAt(b, m.to)
    IN  (IF target # Null THEN PIECE_VALUES(target.type) ELSE 0) * 10
            + getPieceAt(b, m.from).id[3]

\* valA and valB of the comparator of validMoves.sort
captureValue(b, m) ==
    LET target == getPieceAt(b, m.to)
    IN  IF target # Null THEN PIECE_VALUES(target.type) ELSE 0

\* the comparator of validMoves.sort: negative when m1 goes before m2
compareMoves(b, m1, m2) == captureValue(b, m2) - captureValue(b, m1)

RECURSIVE sortFrom(_, _, _)
\* the moves that no move of rest goes before, in their order, then the others
sortFrom(b, rest, n) ==
    IF n = 0 \/ rest = <<>> THEN <<>>
    ELSE LET first(m) == \A i \in 1..Len(rest) : compareMoves(b, rest[i], m) >= 0
         IN  SelectSeq(rest, first)
                \o sortFrom(b, SelectSeq(rest, LAMBDA m : ~first(m)), n - 1)

\* validMoves.sort(comparator): Array.prototype.sort is stable, so moves the
\* comparator ranks equal keep their order
sortMoves(b, moves, n) == sortFrom(b, moves, n)

RECURSIVE minimax(_, _, _, _, _)
RECURSIVE maxLoop(_, _, _, _, _, _, _, _)
RECURSIVE minLoop(_, _, _, _, _, _, _, _)

maxLoop(b, depth, moves, i, alpha, beta, maxEval, bestMove) ==
    IF i > Len(moves) THEN [score |-> maxEval, move |-> bestMove]
    ELSE LET move == moves[i]
             newBoard == simulateMove(b, move)
             evaluation == minimax(newBoard, depth - 1, alpha, beta, FALSE).score
             better == evaluation > maxEval
             maxEval2 == IF better THEN evaluation ELSE maxEval
             bestMove2 == IF better THEN move ELSE bestMove
             alpha2 == Max(alpha, evaluation)
         IN  IF beta <= alpha2 THEN [score |-> maxEval2, move |-> bestMove2]
             ELSE maxLoop(b, depth, moves, i + 1, alpha2, beta, maxEval2, bestMove2)

\* as minLoop, but the loop is left after its first move
minLoopFirstOnly(b, depth, moves, i, alpha, beta, minEval, bestMove) ==
    LET move == moves[i]
        newBoard == simulateMove(b, move)
        evaluation == minimax(newBoard, depth - 1, alpha, beta, TRUE).score
    IN  IF evaluation < minEval THEN [score |-> evaluation, move |-> move]
        ELSE [score |-> minEval, move |-> bestMove]

minLoop(b, depth, moves, i, alpha, beta, minEval, bestMove) ==
    IF i > Len(moves) THEN [score |-> minEval, move |-> bestMove]
    ELSE LET move == moves[i]
             newBoard == simulateMove(b, move)
             evaluation == minimax(newBoard, depth - 1, alpha, beta, TRUE).score
             better == evaluation < minEval
             minEval2 == IF better THEN evaluation ELSE minEval
             bestMove2 == IF better THEN move ELSE bestMove
             beta2 == Min(beta, evaluation)
         IN  IF beta2 <= alpha THEN [score |-> minEval2, move |-> bestMove2]
             ELSE minLoop(b, depth, moves, i + 1, alpha, beta2, minEval2, bestMove2)

\* as minimax, but a side in check with no legal moves is scored as the winner
minimaxMateForMover(b, depth, alpha, beta, isMaximizing) ==
    IF depth = 0 THEN [score |-> evaluateBoard(b), move |-> NullMove]
    ELSE LET turnColor == IF isMaximizing THEN RED ELSE BLACK
             validMoves == getValidMoves(b, turnColor)
         IN  IF Len(validMoves) = 0
             THEN (IF isCheck(b, turnColor)
                   THEN [score |-> IF isMaximizing THEN MATE_SCORE ELSE -MATE_SCORE, move |-> NullMove]
                   ELSE [score |-> 0, move |-> NullMove])
             ELSE LET sorted == sortMoves(b, validMoves, Len(validMoves))
                  IN  IF isMaximizing
                      THEN maxLoop(b, depth, sorted, 1, alpha, beta, -Infinity, NullMove)
                      ELSE minLoop(b, depth, sorted, 1, alpha, beta, Infinity, NullMove)

\* as minimax, but a side with no legal moves is scored 0 whether in check or not
minimaxNoMate(b, depth, alpha, beta, isMaximizing) ==
    IF depth = 0 THEN [score |-> evaluateBoard(b), move |-> NullMove]
    ELSE LET turnColor == IF isMaximizing THEN RED ELSE BLACK
             validMoves == getValidMoves(b, turnColor)
         IN  IF Len(validMoves) = 0
             THEN [score |-> 0, move |-> NullMove]
             ELSE LET sorted == sortMoves(b, validMoves, Len(validMoves))
                  IN  IF isMaximizing
                      THEN maxLoop(b, depth, sorted, 1, alpha, beta, -Infinity, NullMove)
                      ELSE minLoop(b, depth, sorted, 1, alpha, beta, Infinity, NullMove)

minimax(b, depth, alpha, beta, isMaximizing) ==
    IF depth = 0 THEN [score |-> evaluateBoard(b), move |-> NullMove]
    ELSE LET turnColor == IF isMaximizing THEN RED ELSE BLACK
             validMoves == getValidMoves(b, turnColor)
         IN  IF Len(validMoves) = 0
             THEN (IF isCheck(b, turnColor)
                   THEN [score |-> IF isMaximizing THEN -MATE_SCORE ELSE MATE_SCORE, move |-> NullMove]
                   ELSE [score |-> 0, move |-> NullMove])
             ELSE LET sorted == sortMoves(b, validMoves, Len(validMoves))
                  IN  IF isMaximizing
                      THEN maxLoop(b, depth, sorted, 1, alpha, beta, -Infinity, NullMove)
                      ELSE minLoop(b, depth, sorted, 1, alpha, beta, Infinity, NullMove)

\* as getBestMove, but the root is searched as the maximising side
getBestMoveMax(b, depth) == minimax(b, depth, -Infinity, Infinity, TRUE).move

getBestMove(b, depth) == minimax(b, depth, -Infinity, Infinity, FALSE).move

\* ------------------------------------------------------------ state machine
Other(color) == IF color = RED THEN BLACK ELSE RED

\* bounds
MaxPlies == 2
OpeningPlies == 1
MaxDepth == 2
CrowdedPieces == 16

\* positions of games in progress, as FEN texts
BlockedFile ==
    <<"4", "k", "4", "/", "9", "/", "9", "/", "4", "n", "4", "/", "9", "/", "9", "/",
      "P", "8", "/", "9", "/", "9", "/", "4", "K", "4">>
RookMatesBlack ==
    <<"3", "k", "5", "/", "9", "/", "9", "/", "9", "/", "9", "/", "3", "R", "5", "/",
      "9", "/", "9", "/", "9", "/", "4", "K", "4">>
RookMatesRed ==
    <<"4", "k", "4", "/", "9", "/", "9", "/", "9", "/", "3", "r", "5", "/", "9", "/",
      "9", "/", "9", "/", "9", "/", "3", "K", "5">>
RookEnding ==
    <<"4", "k", "4", "/", "9", "/", "9", "/", "9", "/", "9", "/", "3", "R", "5", "/",
      "9", "/", "9", "/", "9", "/", "5", "K", "3">>
MinorPieces ==
    <<"2", "b", "a", "k", "4", "/", "9", "/", "9", "/", "9", "/", "4", "c", "4", "/",
      "2", "P", "6", "/", "9", "/", "4", "C", "4", "/", "4", "A", "4", "/", "3", "K",
      "5">>

GameFens == {BlockedFile, RookMatesBlack, RookMatesRed, RookEnding, MinorPieces}

\* the cells the moves of Simulate are drawn from
ProbeCells == {Pos(4, 0), Pos(3, 5)}

\* a position a game can be in with turnColor to move: the side that moved
\* last did not leave its General attacked or the Generals facing
Sound(b, turnColor) == ~isCheck(b, Other(turnColor)) /\ ~areGeneralsFacing(b)

pieceCount(b) == Cardinality({i \in 1..90 : b[AllCells[i].y][AllCells[i].x] # Null})

\* the number of plies explored from a board: fewer on a crowded board
PlyLimit(b) == IF pieceCount(b) > CrowdedPieces THEN OpeningPlies ELSE MaxPlies

Range(seq) == {seq[i] : i \in 1..Len(seq)}

Start(b, t) ==
    /\ board = b
    /\ turn = t
    /\ ply = 0
    /\ lastOp = "init"
    /\ arg = <<>>
    /\ ret = <<>>
    /\ gameStatus = PLAYING
    /\ selectedPos = NullPos
    /\ aiTimers = {}
    /\ aiThinking = FALSE
    /\ version = "engine"
    /\ stack = <<>>

\* a new game, or a game in progress
Init ==
    \E run \in RandomRuns :
        \/ Start(createInitialBoard(run), RED)
        \/ \E f \in GameFens, t \in {RED, BLACK} :
              /\ Sound(fenToBoard(f, run), t)
              /\ Start(fenToBoard(f, run), t)

\* a position of the game from which play is still explored
AtGame == lastOp \in {"init", "move"} /\ ply < PlyLimit(board)

\* the call simulateMove(b, m), with the argument board read before and after
callSimulate(b, m) ==
    [before |-> b, after |-> inputAfterSimulate(b, m), result |-> simulateMove(b, m)]

\* the side to move plays one of its legal moves
Move ==
    /\ AtGame
    /\ \E m \in Range(getValidMoves(board, turn)) :
          \E call \in {callSimulate(board, m)} :
              /\ board' = call.result
              /\ turn' = Other(turn)
              /\ ply' = ply + 1
              /\ lastOp' = "move"
              /\ arg' = m
              /\ ret' = call
    /\ UNCHANGED appVars

\* simulateMove(board, move) for a candidate move, legal or not
Simulate ==
    /\ AtGame
    /\ \E f \in ProbeCells, t \in ProbeCells :
          /\ lastOp' = "simulateMove"
          /\ arg' = Mv(f, t)
          /\ ret' = callSimulate(board, Mv(f, t))
    /\ UNCHANGED <<board, turn, ply>>
    /\ UNCHANGED appVars

ListMoves ==
    /\ AtGame
    /\ lastOp' = "getValidMoves"
    /\ arg' = <<>>
    /\ ret' = getValidMoves(board, turn)
    /\ UNCHANGED <<board, turn, ply>>
    /\ UNCHANGED appVars

Status ==
    /\ AtGame
    /\ lastOp' = "getGameStatus"
    /\ arg' = <<>>
    /\ ret' = getGameStatus(board, turn)
    /\ UNCHANGED <<board, turn, ply>>
    /\ UNCHANGED appVars

Serialize ==
    /\ AtGame
    /\ lastOp' = "boardToFen"
    /\ arg' = <<>>
    /\ ret' = boardToFen(board, turn)
    /\ UNCHANGED <<board, turn, ply>>
    /\ UNCHANGED appVars

\* fenToBoard of the text Serialize produced
Parse ==
    /\ lastOp = "boardToFen"
    /\ \E run \in RandomRuns :
          /\ lastOp' = "fenToBoard"
          /\ arg' = ret
          /\ ret' = fenToBoard(ret, run)
    /\ UNCHANGED <<board, turn, ply>>
    /\ UNCHANGED appVars

Next == Move \/ Simulate \/ ListMoves \/ Status \/ Serialize \/ Parse

Spec == Init /\ [][Next]_vars

\* ------------------------------------------------- the engine to move
\* positions in which BLACK, the engine, is to move
Stalemate ==
    <<"3", "k", "5", "/", "8", "R", "/", "9", "/", "9", "/", "9", "/", "9", "/", "9",
      "/", "9", "/", "9", "/", "4", "K", "4">>
FreeRook ==
    <<"3", "k", "5", "/", "9", "/", "9", "/", "9", "/", "p", "3", "r", "3", "R", "/",
      "9", "/", "9", "/", "9", "/", "9", "/", "5", "K", "3">>
GuardedSoldier ==
    <<"3", "k", "5", "/", "9", "/", "9", "/", "9", "/", "9", "/", "r", "3", "P", "4",
      "/", "9", "/", "9", "/", "4", "R", "4", "/", "4", "K", "4">>
HorseAttack ==
    <<"4", "k", "4", "/", "4", "a", "4", "/", "9", "/", "9", "/", "9", "/", "9", "/",
      "9", "/", "4", "n", "4", "/", "9", "/", "4", "K", "4">>
SoldierRace ==
    <<"4", "k", "4", "/", "9", "/", "9", "/", "9", "/", "p", "3", "p", "4", "/", "9",
      "/", "4", "P", "4", "/", "9", "/", "9", "/", "4", "K", "4">>
CannonCheck ==
    <<"2", "b", "1", "k", "4", "/", "4", "a", "4", "/", "9", "/", "9", "/", "9", "/",
      "9", "/", "9", "/", "4", "C", "4", "/", "9", "/", "4", "K", "4">>
DeepSoldier ==
    <<"3", "k", "5", "/", "9", "/", "9", "/", "9", "/", "9", "/", "9", "/", "9", "/",
      "9", "/", "3", "p", "5", "/", "4", "K", "4">>
CannonScreen ==
    <<"4", "k", "4", "/", "9", "/", "9", "/", "9", "/", "2", "c", "1", "P", "1", "N",
      "2", "/", "9", "/", "9", "/", "9", "/", "9", "/", "3", "K", "5">>
TwoHorses ==
    <<"3", "k", "5", "/", "9", "/", "2", "n", "6", "/", "9", "/", "9", "/", "9", "/",
      "9", "/", "6", "N", "2", "/", "9", "/", "5", "K", "3">>
AdvisorGuard ==
    <<"3", "a", "k", "4", "/", "9", "/", "9", "/", "9", "/", "9", "/", "9", "/", "4",
      "p", "4", "/", "9", "/", "9", "/", "3", "K", "1", "A", "3">>
RookVsCannon ==
    <<"4", "k", "4", "/", "9", "/", "4", "c", "4", "/", "9", "/", "9", "/", "9", "/",
      "9", "/", "9", "/", "R", "8", "/", "3", "K", "5">>

SearchFens ==
    {Stalemate, FreeRook, GuardedSoldier, HorseAttack, SoldierRace, CannonCheck,
     DeepSoldier, CannonScreen, TwoHorses, AdvisorGuard, RookVsCannon,
     BlockedFile, RookMatesBlack, RookEnding, MinorPieces}

SearchDepths == 0..MaxDepth

InitSearch ==
    \E run \in RandomRuns, f \in SearchFens :
        /\ Sound(fenToBoard(f, run), BLACK)
        /\ Start(fenToBoard(f, run), BLACK)

\* getBestMove(board, depth), with the result of the root call of minimax
Search ==
    /\ lastOp = "init"
    /\ turn = BLACK
    /\ \E d \in SearchDepths :
          /\ lastOp' = "getBestMove"
          /\ arg' = d
          /\ ret' = [move |-> getBestMove(board, d),
                     root |-> minimax(board, d, -Infinity, Infinity, FALSE)]
    /\ UNCHANGED <<board, turn, ply>>
    /\ UNCHANGED appVars

NextSearch == Search

SpecSearch == InitSearch /\ [][NextSearch]_vars

\* ------------------------------------------------- the rules, call by call
\* boards the rules are asked about
RiverFight ==
    <<"3", "k", "5", "/", "9", "/", "9", "/", "3", "P", "5", "/", "2", "b", "1", "P",
      "1", "p", "2", "/", "2", "p", "1", "B", "1", "P", "2", "/", "3", "n", "5", "/",
      "9", "/", "9", "/", "4", "K", "4">>
CannonLines ==
    <<"4", "k", "4", "/", "4", "a", "4", "/", "4", "n", "4", "/", "9", "/", "4", "C",
      "4", "/", "9", "/", "c", "1", "P", "1", "R", "1", "r", "R", "C", "/", "9", "/",
      "4", "A", "4", "/", "3", "K", "5">>
HorseLegs ==
    <<"3", "k", "5", "/", "9", "/", "1", "n", "7", "/", "1", "P", "7", "/", "9", "/",
      "4", "N", "4", "/", "4", "p", "4", "/", "9", "/", "8", "N", "/", "4", "K", "4">>
Palaces ==
    <<"9", "/", "4", "a", "4", "/", "3", "k", "1", "a", "3", "/", "9", "/", "9", "/",
      "9", "/", "9", "/", "3", "A", "K", "4", "/", "9", "/", "5", "A", "3">>
NoBlackGeneral ==
    <<"2", "b", "a", "5", "/", "9", "/", "9", "/", "9", "/", "4", "c", "4", "/",
      "2", "P", "6", "/", "9", "/", "4", "C", "4", "/", "4", "A", "4", "/", "3", "K",
      "5">>
NoRedGeneral ==
    <<"3", "k", "5", "/", "9", "/", "9", "/", "9", "/", "p", "3", "r", "3", "R", "/",
      "9", "/", "9", "/", "9", "/", "9", "/", "9">>

RuleFens == {InitialLayout, RiverFight, CannonLines, HorseLegs, Palaces, NoBlackGeneral,
             NoRedGeneral}

\* how far beyond the grid the coordinates of a move are drawn
GridMargin == 1

\* the from squares asked about, and the to squares: all of them from a
\* square that holds a piece, a few from a square that holds none
MoveCells == {Pos(x, y) : x \in (0 - GridMargin)..(8 + GridMargin),
                          y \in (0 - GridMargin)..(9 + GridMargin)}

MoveTargets(b, from) ==
    IF getPieceAt(b, from) # Null THEN MoveCells
    ELSE {Pos(0, 0), Pos(4, 7), Pos(0 - GridMargin, 3), Pos(8, 9 + GridMargin), from}

InitRules ==
    \E f \in RuleFens, t \in {RED, BLACK} : Start(fenToBoard(f, 0), t)

\* isValidMove(board, move, turn) for a move drawn on and around the grid
Validate ==
    /\ lastOp = "init"
    /\ \E from \in MoveCells :
          \E to \in MoveTargets(board, from) :
              /\ lastOp' = "isValidMove"
              /\ arg' = Mv(from, to)
              /\ ret' = isValidMove(board, Mv(from, to), turn)
    /\ UNCHANGED <<board, turn, ply>>
    /\ UNCHANGED appVars

\* the side to move plays a move isValidMove accepts; ret is the board before
Play ==
    /\ AtGame
    /\ \E i \in 1..90, j \in 1..90 :
          /\ isValidMove(board, Mv(AllCells[i], AllCells[j]), turn)
          /\ board' = simulateMove(board, Mv(AllCells[i], AllCells[j]))
          /\ arg' = Mv(AllCells[i], AllCells[j])
    /\ turn' = Other(turn)
    /\ ply' = ply + 1
    /\ lastOp' = "move"
    /\ ret' = board
    /\ UNCHANGED appVars

\* isCheck(board, color) for either colour
Check ==
    /\ lastOp \in {"init", "move"}
    /\ \E color \in {RED, BLACK} :
          /\ lastOp' = "isCheck"
          /\ arg' = color
          /\ ret' = isCheck(board, color)
    /\ UNCHANGED <<board, turn, ply>>
    /\ UNCHANGED appVars

NextRules == Validate \/ Play \/ Check

SpecRules == InitRules /\ [][NextRules]_vars

\* ------------------------------------------------- minimax for either side
\* positions with few moves for either side, which a deeper search can finish
DeepDepth == 4

SoldierMate ==
    <<"4", "k", "4", "/", "9", "/", "9", "/", "9", "/", "9", "/", "9", "/", "P", "6",
      "p", "P", "/", "3", "p", "5", "/", "2", "p", "6", "/", "3", "K", "5">>
SoldierMateFar ==
    <<"4", "k", "4", "/", "9", "/", "9", "/", "9", "/", "9", "/", "P", "7", "p", "/",
      "8", "P", "/", "3", "p", "5", "/", "2", "p", "6", "/", "3", "K", "5">>
SoldierMateRight ==
    <<"4", "k", "4", "/", "9", "/", "9", "/", "9", "/", "9", "/", "9", "/", "P", "6",
      "p", "P", "/", "5", "p", "3", "/", "6", "p", "2", "/", "5", "K", "3">>
SoldierMateOnly ==
    <<"4", "k", "4", "/", "9", "/", "9", "/", "9", "/", "9", "/", "9", "/", "P", "8",
      "/", "3", "p", "5", "/", "2", "p", "6", "/", "3", "K", "5">>
SoldiersMateRed ==
    <<"4", "k", "4", "/", "9", "/", "9", "/", "9", "/", "9", "/", "9", "/", "P", "6",
      "p", "P", "/", "9", "/", "2", "p", "p", "5", "/", "3", "K", "5">>
StalemateRed ==
    <<"4", "k", "4", "/", "9", "/", "9", "/", "9", "/", "9", "/", "9", "/", "9", "/",
      "9", "/", "8", "r", "/", "3", "K", "5">>

MinimaxFens ==
    {SoldierMate, SoldierMateFar, SoldierMateRight, SoldierMateOnly, SoldiersMateRed,
     StalemateRed, Stalemate, DeepSoldier, SoldierRace, AdvisorGuard, RookMatesBlack,
     RookMatesRed}

InitMinimax ==
    \E run \in RandomRuns, f \in MinimaxFens, t \in {RED, BLACK} :
        /\ Sound(fenToBoard(f, run), t)
        /\ Start(fenToBoard(f, run), t)

\* minimax(board, depth, -Infinity, Infinity, isMaximizing) for the side to move;
\* with BLACK to move it is the call of getBestMove(board, depth), whose result
\* is the move of this result
Minimax ==
    /\ lastOp = "init"
    /\ \E d \in 0..DeepDepth :
          /\ lastOp' = "minimax"
          /\ arg' = d
          /\ ret' = minimax(board, d, -Infinity, Infinity, turn = RED)
    /\ UNCHANGED <<board, turn, ply>>
    /\ UNCHANGED appVars

NextMinimax == Minimax

SpecMinimax == InitMinimax /\ [][NextMinimax]_vars

\* --------------------------------------- the calls of countPiecesBetween
\* The pairs <<p1, p2>> that countPiecesBetween is called with while the
\* operation runs on the board.

\* as betweenCallsIsValidMove, but the Rook and the Cannon branch do not
\* return early on a move off the line
betweenCallsAnyLine(b, move, turnColor) ==
    LET from == move.from
        to == move.to
        piece == getPieceAt(b, from)
        target == getPieceAt(b, to)
    IN  IF piece = Null \/ piece.color # turnColor THEN {}
        ELSE IF ~isValidPos(to) THEN {}
        ELSE IF from.x = to.x /\ from.y = to.y THEN {}
        ELSE IF target # Null /\ target.color = turnColor THEN {}
        ELSE IF piece.type \in {ROOK, CANNON} THEN {<<from, to>>}
        ELSE {}

betweenCallsIsValidMove(b, move, turnColor) ==
    LET from == move.from
        to == move.to
        piece == getPieceAt(b, from)
        target == getPieceAt(b, to)
    IN  IF piece = Null \/ piece.color # turnColor THEN {}
        ELSE IF ~isValidPos(to) THEN {}
        ELSE IF from.x = to.x /\ from.y = to.y THEN {}
        ELSE IF target # Null /\ target.color = turnColor THEN {}
        ELSE IF piece.type \in {ROOK, CANNON}
        THEN (IF from.x # to.x /\ from.y # to.y THEN {} ELSE {<<from, to>>})
        ELSE {}

betweenCallsAreGeneralsFacing(b) ==
    LET rGen == findGeneral(b, RED)
        bGen == findGeneral(b, BLACK)
    IN  IF rGen = NullPos \/ bGen = NullPos THEN {}
        ELSE IF rGen.x = bGen.x THEN {<<rGen, bGen>>}
        ELSE {}

\* the loop of isCheck asks isValidMove about each enemy piece in turn and
\* stops at the first that attacks the General
betweenCallsIsCheck(b, color) ==
    LET generalPos == findGeneral(b, color)
        enemyColor == Other(color)
        enemy(i) == b[AllCells[i].y][AllCells[i].x] # Null
                        /\ b[AllCells[i].y][AllCells[i].x].color = enemyColor
        attackers == {i \in 1..90 : enemy(i) /\ isValidMove(b, Mv(AllCells[i], generalPos), enemyColor)}
        asked == {i \in 1..90 : enemy(i) /\ \A a \in attackers : i <= a}
    IN  IF generalPos = NullPos THEN {}
        ELSE UNION {betweenCallsIsValidMove(b, Mv(AllCells[i], generalPos), enemyColor) : i \in asked}

\* for each own piece and each square: isValidMove, then isCheck on the board
\* after the move if it is valid, then areGeneralsFacing if that is no check
betweenCallsGetValidMoves(b, turnColor) ==
    LET own == {i \in 1..90 : b[AllCells[i].y][AllCells[i].x] # Null
                                /\ b[AllCells[i].y][AllCells[i].x].color = turnColor}
        of(move) ==
            betweenCallsIsValidMove(b, move, turnColor)
              \cup (IF ~isValidMove(b, move, turnColor) THEN {}
                    ELSE \* one tempBoard for both calls
                         UNION {betweenCallsIsCheck(tempBoard, turnColor)
                                  \cup (IF isCheck(tempBoard, turnColor) THEN {}
                                        ELSE betweenCallsAreGeneralsFacing(tempBoard)) :
                                tempBoard \in {simulateMove(b, move)}})
    IN  UNION {of(Mv(AllCells[i], AllCells[j])) : i \in own, j \in 1..90}

betweenCallsGetGameStatus(b, turnColor) == betweenCallsGetValidMoves(b, turnColor)

RECURSIVE betweenCallsMinimax(_, _, _)
\* the calls at every node minimax can visit: getValidMoves at the node,
\* isCheck when there are no moves, and the nodes below; alpha-beta pruning
\* leaves some of these nodes out, never adds one
betweenCallsMinimax(b, depth, isMaximizing) ==
    IF depth = 0 THEN {}
    ELSE LET turnColor == IF isMaximizing THEN RED ELSE BLACK
         IN  UNION {betweenCallsGetValidMoves(b, turnColor)
                      \cup (IF Len(validMoves) = 0 THEN betweenCallsIsCheck(b, turnColor)
                            ELSE UNION {betweenCallsMinimax(simulateMove(b, validMoves[i]),
                                                            depth - 1, ~isMaximizing) :
                                        i \in 1..Len(validMoves)}) :
                    validMoves \in {getValidMoves(b, turnColor)}}

betweenCallsGetBestMove(b, depth) == betweenCallsMinimax(b, depth, FALSE)

BetweenFens ==
    {CannonLines, RiverFight, NoBlackGeneral, RookEnding, FreeRook, RookVsCannon,
     CannonCheck, MinorPieces, Stalemate, GuardedSoldier, SoldierMate}

InitBetween ==
    \E f \in BetweenFens, t \in {RED, BLACK} : Start(fenToBoard(f, 0), t)

\* isValidMove(board, move, turn) for a move drawn on and around the grid
BetweenValidate ==
    /\ lastOp = "init"
    /\ \E from \in MoveCells :
          \E to \in MoveTargets(board, from) :
              /\ lastOp' = "isValidMove"
              /\ arg' = Mv(from, to)
              /\ ret' = betweenCallsIsValidMove(board, Mv(from, to), turn)
    /\ UNCHANGED <<board, turn, ply>>
    /\ UNCHANGED appVars

BetweenCheck ==
    /\ lastOp = "init"
    /\ lastOp' = "isCheck"
    /\ arg' = turn
    /\ ret' = betweenCallsIsCheck(board, turn)
    /\ UNCHANGED <<board, turn, ply>>
    /\ UNCHANGED appVars

BetweenMoves ==
    /\ lastOp = "init"
    /\ lastOp' = "getValidMoves"
    /\ arg' = turn
    /\ ret' = betweenCallsGetValidMoves(board, turn)
    /\ UNCHANGED <<board, turn, ply>>
    /\ UNCHANGED appVars

BetweenStatus ==
    /\ lastOp = "init"
    /\ lastOp' = "getGameStatus"
    /\ arg' = turn
    /\ ret' = betweenCallsGetGameStatus(board, turn)
    /\ UNCHANGED <<board, turn, ply>>
    /\ UNCHANGED appVars

BetweenSearch ==
    /\ lastOp = "init"
    /\ \E d \in SearchDepths :
          /\ lastOp' = "getBestMove"
          /\ arg' = d
          /\ ret' = betweenCallsGetBestMove(board, d)
    /\ UNCHANGED <<board, turn, ply>>
    /\ UNCHANGED appVars

NextBetween == BetweenValidate \/ BetweenCheck \/ BetweenMoves \/ BetweenStatus \/ BetweenSearch

SpecBetween == InitBetween /\ [][NextBetween]_vars

\* ------------------------------------------------- the engine's call stack
\* Which function calls which, with the data left out: a frame is a function
\* that has been called and has not returned, with the depth argument of
\* minimax and getBestMove and the number of calls it has made so far.
\* Every loop of the engine runs over the cells of the board or over an array
\* of moves, so a frame makes a bounded number of calls: at most MaxCalls here.
MaxCalls == 2

Frame(fn, depth) == [fn |-> fn, depth |-> depth, calls |-> 0]

\* as callees, but isCheck asks getValidMoves whether the General can be taken
calleesCheckByMoves(fn, depth) ==
    CASE fn = "getBestMove" -> {Frame("minimax", depth)}
      [] fn = "minimax" ->
            IF depth = 0 THEN {Frame("evaluateBoard", 0)}
            ELSE {Frame("getValidMoves", 0), Frame("isCheck", 0), Frame("getPieceAt", 0),
                  Frame("simulateMove", 0), Frame("minimax", depth - 1)}
      [] fn = "evaluateBoard" -> {Frame("getPositionBonus", 0)}
      [] fn = "getGameStatus" -> {Frame("getValidMoves", 0)}
      [] fn = "getValidMoves" ->
            {Frame("isValidMove", 0), Frame("simulateMove", 0), Frame("isCheck", 0),
             Frame("areGeneralsFacing", 0)}
      [] fn = "isCheck" -> {Frame("findGeneral", 0), Frame("getValidMoves", 0)}
      [] fn = "areGeneralsFacing" -> {Frame("findGeneral", 0), Frame("countPiecesBetween", 0)}
      [] fn = "isValidMove" ->
            {Frame("getPieceAt", 0), Frame("isValidPos", 0), Frame("countPiecesBetween", 0)}
      [] fn = "getPieceAt" -> {Frame("isValidPos", 0)}
      [] OTHER -> {}

\* the calls in the body of each function; minimax returns the evaluation at
\* depth 0 before anything else and passes depth - 1 to itself
callees(fn, depth) ==
    CASE fn = "getBestMove" -> {Frame("minimax", depth)}
      [] fn = "minimax" ->
            IF depth = 0 THEN {Frame("evaluateBoard", 0)}
            ELSE {Frame("getValidMoves", 0), Frame("isCheck", 0), Frame("getPieceAt", 0),
                  Frame("simulateMove", 0), Frame("minimax", depth - 1)}
      [] fn = "evaluateBoard" -> {Frame("getPositionBonus", 0)}
      [] fn = "getGameStatus" -> {Frame("getValidMoves", 0)}
      [] fn = "getValidMoves" ->
            {Frame("isValidMove", 0), Frame("simulateMove", 0), Frame("isCheck", 0),
             Frame("areGeneralsFacing", 0)}
      [] fn = "isCheck" -> {Frame("findGeneral", 0), Frame("isValidMove", 0)}
      [] fn = "areGeneralsFacing" -> {Frame("findGeneral", 0), Frame("countPiecesBetween", 0)}
      [] fn = "isValidMove" ->
            {Frame("getPieceAt", 0), Frame("isValidPos", 0), Frame("countPiecesBetween", 0)}
      [] fn = "getPieceAt" -> {Frame("isValidPos", 0)}
      [] OTHER -> {}

\* the exported operations of the rules and of the search
Operations ==
    {Frame(fn, 0) : fn \in {"isValidMove", "isCheck", "areGeneralsFacing", "getValidMoves",
                            "getGameStatus", "simulateMove"}}
        \cup {Frame("getBestMove", d) : d \in SearchDepths}

\* frames enough for the deepest chain of calls, and a few more
StackLimit == MaxDepth + 12

InitCalls == Start(fenToBoard(RookEnding, 0), BLACK)

\* an operation is called from outside
Enter ==
    /\ lastOp = "init"
    /\ \E op \in Operations :
          /\ stack' = <<op>>
          /\ arg' = op
    /\ lastOp' = "call"
    /\ UNCHANGED <<board, turn, ply, ret, gameStatus, selectedPos, aiTimers, aiThinking, version>>

\* the innermost function makes one of the calls of its body
Call ==
    /\ stack # <<>>
    /\ Len(stack) < StackLimit
    /\ stack[Len(stack)].calls < MaxCalls
    /\ \E callee \in callees(stack[Len(stack)].fn, stack[Len(stack)].depth) :
          stack' = Append([stack EXCEPT ![Len(stack)].calls = @ + 1], callee)
    /\ lastOp' = "call"
    /\ UNCHANGED <<board, turn, ply, arg, ret, gameStatus, selectedPos, aiTimers, aiThinking,
                   version>>

\* the innermost function returns
Return ==
    /\ stack # <<>>
    /\ stack' = SubSeq(stack, 1, Len(stack) - 1)
    /\ lastOp' = IF Len(stack) = 1 THEN "returned" ELSE "return"
    /\ UNCHANGED <<board, turn, ply, arg, ret, gameStatus, selectedPos, aiTimers, aiThinking,
                   version>>

NextCalls == Enter \/ Call \/ Return

\* the engine is synchronous code: a function that has been called runs on
SpecCalls == InitCalls /\ [][NextCalls]_vars /\ WF_vars(NextCalls)

\* ------------------------------------------------------------ the App
\* The three App components of the repository: the one of src/unnamed/part_000
\* and the two of src/App.tsx. A handler runs to its end, React renders, and
\* the AI turn effect runs, all in one step: nothing else runs in between.
Part000 == "src/unnamed/part_000"
AppFirst == "src/App.tsx:226"
AppSecond == "src/App.tsx:583"
AppVersions == {Part000, AppFirst, AppSecond}

\* the depth the AI turn effect passes to getBestMove
AiDepth == 3

\* the moves RED makes in one run
AppMoves == 1

\* games in progress with RED, the player, to move
PinnedSoldier ==
    <<"4", "k", "4", "/", "9", "/", "9", "/", "9", "/", "4", "P", "4", "/", "9", "/",
      "9", "/", "9", "/", "9", "/", "4", "K", "4">>
RedMatesInOne ==
    <<"3", "k", "5", "/", "2", "P", "6", "/", "3", "P", "5", "/", "9", "/", "9", "/",
      "9", "/", "9", "/", "9", "/", "9", "/", "4", "K", "4">>

AppFens == {PinnedSoldier, RedMatesInOne, SoldierMate}

\* as timersAfterEffect, but no timer is ever set
timersNeverSet(v, b, t, status, timers) == {}

\* what the AI turn effect leaves pending after a render in which board, turn
\* or gameStatus changed: part_000 sets a timer and never clears one, App.tsx
\* clears the timer of the render before and sets one. The callback of a timer
\* calls getBestMove on the board of its render, whatever is shown when it
\* runs: the timer is written with the move that call returns.
timersAfterEffect(v, b, t, status, timers) ==
    LET due == t = BLACK /\ status = PLAYING
        timer == [board |-> b, turn |-> t, bestMove |-> getBestMove(b, AiDepth)]
    IN  IF v = Part000 THEN (IF due THEN timers \cup {timer} ELSE timers)
        ELSE (IF due THEN {timer} ELSE {})

\* setAiThinking(true) in the effect of part_000
thinkingAfterEffect(v, t, status, thinking) ==
    IF v = Part000 /\ t = BLACK /\ status = PLAYING THEN TRUE ELSE thinking

\* as statusAfterMove, but the status is left as it is
statusKept(v, nextBoard, nextTurn, status) == status

\* the gameStatus after a move: part_000 sets what getGameStatus says,
\* executeMove of App.tsx sets it when it is not PLAYING
statusAfterMove(v, nextBoard, nextTurn, status) ==
    IF v = Part000 THEN getGameStatus(nextBoard, nextTurn)
    ELSE IF getGameStatus(nextBoard, nextTurn) # PLAYING
         THEN getGameStatus(nextBoard, nextTurn)
         ELSE status

ownPiece(b, pos, t) == getPieceAt(b, pos) # Null /\ getPieceAt(b, pos).color = t

\* handleSquareClick applies the move from the selected square to the clicked
clickMoves(v, b, selected, clicked, t) ==
    LET move == Mv(selected, clicked)
    IN  /\ selected # NullPos
        /\ ~ownPiece(b, clicked, t)
        /\ isValidMove(b, move, t)
        /\ IF v = Part000
           THEN \E i \in 1..Len(getValidMoves(b, t)) :
                    /\ isPosEqual(getValidMoves(b, t)[i].from, selected)
                    /\ isPosEqual(getValidMoves(b, t)[i].to, clicked)
           ELSE ~isCheck(simulateMove(b, move), t)

\* the selected square after a click that applies no move
selectedAfterClick(v, b, selected, clicked, t) ==
    CASE v = Part000 ->
            IF ownPiece(b, clicked, t) THEN clicked ELSE selected
      [] v = AppFirst ->
            IF selected # NullPos
            THEN (IF isPosEqual(selected, clicked) THEN NullPos
                  ELSE IF ownPiece(b, clicked, t) THEN clicked
                  ELSE IF isValidMove(b, Mv(selected, clicked), t) THEN selected
                  ELSE NullPos)
            ELSE (IF ownPiece(b, clicked, t) THEN clicked ELSE selected)
      [] v = AppSecond ->
            IF ownPiece(b, clicked, t)
            THEN (IF selected # NullPos /\ isPosEqual(selected, clicked) THEN NullPos ELSE clicked)
            ELSE IF selected # NullPos
            THEN (IF isValidMove(b, Mv(selected, clicked), t) THEN selected ELSE NullPos)
            ELSE selected

\* the first lines of handleSquareClick
clickHeard ==
    /\ gameStatus = PLAYING
    /\ turn = RED
    /\ (version = Part000 => ~aiThinking)

InitApp ==
    \E v \in AppVersions, b \in {fenToBoard(f, 0) : f \in AppFens} \cup {createInitialBoard(0)} :
        /\ board = b
        /\ turn = RED
        /\ ply = 0
        /\ lastOp = "init"
        /\ arg = <<>>
        /\ ret = <<>>
        /\ gameStatus = PLAYING
        /\ selectedPos = NullPos
        /\ aiTimers = {}
        /\ aiThinking = FALSE
        /\ version = v
        /\ stack = <<>>

\* handleSquareClick(x, y) where it selects or deselects a square
ClickSquare ==
    /\ clickHeard
    /\ \E i \in 1..90 :
          /\ ~clickMoves(version, board, selectedPos, AllCells[i], turn)
          /\ selectedPos' = selectedAfterClick(version, board, selectedPos, AllCells[i], turn)
          /\ selectedPos' # selectedPos
          /\ arg' = AllCells[i]
    /\ lastOp' = "click"
    /\ ret' = [board |-> board, turn |-> turn]
    /\ UNCHANGED <<board, turn, ply, gameStatus, aiTimers, aiThinking, version, stack>>

\* handleSquareClick(x, y) where it applies the move of RED, with the render
\* and the AI turn effect after it
HumanMove ==
    /\ clickHeard
    /\ ply < AppMoves
    /\ pieceCount(board) <= CrowdedPieces
    /\ \E i \in 1..90 :
          /\ clickMoves(version, board, selectedPos, AllCells[i], turn)
          /\ arg' = Mv(selectedPos, AllCells[i])
          /\ \E nextBoard \in {simulateMove(board, Mv(selectedPos, AllCells[i]))} :
                \E status \in {statusAfterMove(version, nextBoard, Other(turn), gameStatus)} :
                    /\ board' = nextBoard
                    /\ gameStatus' = status
                    /\ aiTimers' = timersAfterEffect(version, nextBoard, Other(turn), status, aiTimers)
                    /\ aiThinking' = thinkingAfterEffect(version, Other(turn), status, aiThinking)
    /\ turn' = Other(turn)
    /\ selectedPos' = NullPos
    /\ ply' = ply + 1
    /\ lastOp' = "humanMove"
    /\ ret' = [board |-> board, turn |-> turn]
    /\ UNCHANGED <<version, stack>>

\* the timers left when a timer has fired and the effect has run again: the
\* callback leaves RED to move or the game over, so the effect sets no timer,
\* and in App.tsx its cleanup has cleared what was pending
timersAfterCallback(v, timers, fired) == IF v = Part000 THEN timers \ {fired} ELSE {}

\* a timer of the AI turn effect fires: the move of getBestMove on the board
\* of the render that set the timer, or the end of the game when it is null
AiTimerFires ==
    /\ \E timer \in aiTimers :
          \E bestMove \in {timer.bestMove} :
              /\ arg' = bestMove
              /\ lastOp' = IF bestMove # NullMove THEN "aiMove" ELSE "aiNoMove"
              /\ IF bestMove # NullMove
                 THEN \E nextBoard \in {simulateMove(timer.board, bestMove)} :
                        \E nextTurn \in {IF version = Part000 THEN RED ELSE Other(turn)} :
                          \E status \in {statusAfterMove(version, nextBoard, Other(timer.turn),
                                                          gameStatus)} :
                              /\ board' = nextBoard
                              /\ turn' = nextTurn
                              /\ gameStatus' = status
                              /\ selectedPos' = IF version = Part000 THEN selectedPos ELSE NullPos
                              /\ ~(nextTurn = BLACK /\ status = PLAYING)
                              /\ aiTimers' = timersAfterCallback(version, aiTimers, timer)
                 ELSE /\ gameStatus' = IF version = AppFirst THEN gameStatus ELSE RED_WIN
                      /\ aiTimers' = IF version = AppFirst THEN aiTimers \ {timer}
                                     ELSE timersAfterCallback(version, aiTimers, timer)
                      /\ UNCHANGED <<board, turn, selectedPos>>
    /\ aiThinking' = FALSE
    /\ ret' = [board |-> board, turn |-> turn]
    /\ UNCHANGED <<ply, version, stack>>

\* restartGame (resetGame), whose button is always there
RestartGame ==
    /\ board' = createInitialBoard(0)
    /\ turn' = RED
    /\ gameStatus' = PLAYING
    /\ selectedPos' = NullPos
    /\ aiTimers' = timersAfterEffect(version, board', RED, PLAYING, aiTimers)
    /\ lastOp' = "restart"
    /\ arg' = <<>>
    /\ ret' = [board |-> board, turn |-> turn]
    /\ UNCHANGED <<ply, aiThinking, version, stack>>

NextApp == ClickSquare \/ HumanMove \/ AiTimerFires \/ RestartGame

\* a timer that is set and not cleared fires after its 500 ms
SpecApp == InitApp /\ [][NextApp]_vars /\ WF_vars(AiTimerFires)

\* ------------------------------------------------------------------ claims
allPos == Range(AllCells)

generalCount(b, color) ==
    Cardinality({c \in allPos : b[c.y][c.x] # Null /\ b[c.y][c.x].type = GENERAL
                                 /\ b[c.y][c.x].color = color})

\* a move of the side to move that is geometrically valid and leaves its
\* General safe and the Generals not facing
SafeMove(b, m, color) ==
    /\ isValidMove(b, m, color)
    /\ ~isCheck(simulateMove(b, m), color)
    /\ ~areGeneralsFacing(simulateMove(b, m))

\* C1: legality closure. The list getValidMoves(board, turn) returns holds
\* only moves that are geometrically valid, leave the mover's General
\* unattacked and the Generals not facing, and it holds every such move.
C1_LegalityClosure ==
    lastOp = "getValidMoves" =>
        /\ \A m \in Range(ret) : SafeMove(board, m, turn)
        /\ \A f \in allPos, t \in allPos :
              SafeMove(board, Mv(f, t), turn) => Mv(f, t) \in Range(ret)

\* a list was returned that left out one valid move for check and another
\* one for facing Generals
C1_Witness ==
    /\ lastOp = "getValidMoves"
    /\ Len(ret) > 0
    /\ \E f \in allPos, t \in allPos :
          /\ isValidMove(board, Mv(f, t), turn)
          /\ isCheck(simulateMove(board, Mv(f, t)), turn)
    /\ \E f \in allPos, t \in allPos :
          /\ isValidMove(board, Mv(f, t), turn)
          /\ ~isCheck(simulateMove(board, Mv(f, t)), turn)
          /\ areGeneralsFacing(simulateMove(board, Mv(f, t)))

\* C2: every board of a game played with moves of getValidMoves holds
\* exactly one General of each colour, so findGeneral never returns null on it.
C2_OneGeneralEach ==
    /\ generalCount(board, RED) = 1
    /\ generalCount(board, BLACK) = 1
    /\ findGeneral(board, RED) # NullPos
    /\ findGeneral(board, BLACK) # NullPos

\* after two moves the General of the side to move is attacked, and on the board
C2_Witness ==
    /\ lastOp = "move"
    /\ ply >= 2
    /\ isCheck(board, turn)
    /\ generalCount(board, turn) = 1

\* C3: simulateMove leaves its argument board as it was, cell by cell, and
\* so its FEN text; this holds for the moves of the game and of the search
\* (Move) and for candidate moves (Simulate).
C3_InputUnchanged ==
    lastOp \in {"move", "simulateMove"} =>
        /\ \A c \in allPos : ret.after[c.y][c.x] = ret.before[c.y][c.x]
        /\ boardToFen(ret.after, RED) = boardToFen(ret.before, RED)

\* a call that returned a board different from its argument
C3_Witness ==
    /\ lastOp \in {"move", "simulateMove"}
    /\ ret.before[arg.from.y][arg.from.x] # Null
    /\ arg.from # arg.to
    /\ ret.result # ret.before

IsBoard(b) == DOMAIN b = Rows /\ \A y \in Rows : DOMAIN b[y] = Cols

Relocated(before, m, result) ==
    /\ IsBoard(result)
    /\ \A c \in allPos : (c # m.from /\ c # m.to) => result[c.y][c.x] = before[c.y][c.x]
    /\ result[m.from.y][m.from.x] = Null
    /\ result[m.to.y][m.to.x] = before[m.from.y][m.from.x]

\* C4 as stated: for every move on the board, the result equals the argument
\* outside from and to, has from empty and holds at to the piece from held.
C4_Original ==
    lastOp \in {"move", "simulateMove"} => Relocated(ret.before, arg, ret.result)

\* C4 amended: the same for every move on the board with from # to.
C4_Relocates ==
    (lastOp \in {"move", "simulateMove"} /\ arg.from # arg.to) =>
        Relocated(ret.before, arg, ret.result)

\* a move, not a legal one, that took a piece
C4_Witness ==
    /\ lastOp = "simulateMove"
    /\ arg.from # arg.to
    /\ ret.before[arg.from.y][arg.from.x] # Null
    /\ ret.before[arg.to.y][arg.to.x] # Null
    /\ ~isValidMove(ret.before, arg, turn)

\* a RED Rook attacks the BLACK General along an open column
RookOnOpenFile(b) ==
    LET g == findGeneral(b, BLACK)
    IN  /\ g # NullPos
        /\ \E y \in Rows :
              /\ b[y][g.x] # Null
              /\ b[y][g.x].type = ROOK
              /\ b[y][g.x].color = RED
              /\ countPiecesBetween(b, Pos(g.x, y), g) = 0

\* C5: getGameStatus returns the win of the other colour exactly when the
\* side to move has no legal move, PLAYING otherwise, and never DRAW; a BLACK
\* General without escape from a RED Rook on an open file gives RED_WIN.
C5_Status ==
    lastOp = "getGameStatus" =>
        /\ (Len(getValidMoves(board, turn)) = 0) <=>
              (ret = IF turn = RED THEN BLACK_WIN ELSE RED_WIN)
        /\ (Len(getValidMoves(board, turn)) # 0) => ret = PLAYING
        /\ ret # DRAW
        /\ (turn = BLACK /\ RookOnOpenFile(board) /\ Len(getValidMoves(board, BLACK)) = 0)
              => ret = RED_WIN

C5_Witness ==
    /\ lastOp = "getGameStatus"
    /\ turn = BLACK
    /\ RookOnOpenFile(board)
    /\ ret = RED_WIN

SetMax(S) == CHOOSE x \in S : \A y \in S : y <= x
SetMin(S) == CHOOSE x \in S : \A y \in S : x <= y

RECURSIVE plainMinimax(_, _, _)
\* the value of depth-limited minimax without pruning and without ordering
plainMinimax(b, depth, isMaximizing) ==
    IF depth = 0 THEN evaluateBoard(b)
    ELSE LET color == IF isMaximizing THEN RED ELSE BLACK
             moves == Range(getValidMoves(b, color))
         IN  IF moves = {}
             THEN (IF isCheck(b, color)
                   THEN (IF isMaximizing THEN -MATE_SCORE ELSE MATE_SCORE)
                   ELSE 0)
             ELSE LET values == {plainMinimax(simulateMove(b, m), depth - 1, ~isMaximizing) : m \in moves}
                  IN  IF isMaximizing THEN SetMax(values) ELSE SetMin(values)

\* C6: with a legal BLACK move and depth >= 1 the root score of the pruned
\* search is the plain minimax value, and the move returned leads to a
\* position whose plain minimax value is that optimum.
C6_MinimaxValue ==
    (lastOp = "getBestMove" /\ arg >= 1 /\ Len(getValidMoves(board, BLACK)) > 0) =>
        /\ ret.root.score = plainMinimax(board, arg, FALSE)
        /\ ret.move = ret.root.move
        /\ ret.move # NullMove
        /\ plainMinimax(simulateMove(board, ret.move), arg - 1, TRUE)
              = plainMinimax(board, arg, FALSE)

\* a search of depth 2 or more whose first move in sorted order is not optimal
C6_Witness ==
    /\ lastOp = "getBestMove"
    /\ arg >= 2
    /\ ret.move # NullMove
    /\ LET moves == getValidMoves(board, BLACK)
           first == sortMoves(board, moves, Len(moves))[1]
       IN  plainMinimax(simulateMove(board, first), arg - 1, TRUE) > ret.root.score

\* C7: the move returned is the same for every board with the same types
\* and colours in the same cells, whatever the ids of the pieces.
C7_IdsIgnored ==
    lastOp = "getBestMove" =>
        \A run \in RandomRuns :
            getBestMove(fenToBoard(boardToFen(board, turn), run), arg) = ret.move

\* a move was returned for a board that has a twin with other ids
C7_Witness ==
    /\ lastOp = "getBestMove"
    /\ arg >= 1
    /\ ret.move # NullMove
    /\ \E run \in RandomRuns : fenToBoard(boardToFen(board, turn), run) # board

\* C8: null is returned when BLACK has no legal move, with depth >= 1 only
\* then, and a move returned is a legal move of a BLACK piece.
C8_NullOrLegal ==
    lastOp = "getBestMove" =>
        /\ Len(getValidMoves(board, BLACK)) = 0 => ret.move = NullMove
        /\ (arg >= 1 /\ ret.move = NullMove) => Len(getValidMoves(board, BLACK)) = 0
        /\ ret.move # NullMove =>
              /\ ret.move \in Range(getValidMoves(board, BLACK))
              /\ getPieceAt(board, ret.move.from).color = BLACK

\* null was returned by a search of depth >= 1
C8_Witness ==
    /\ lastOp = "getBestMove"
    /\ arg >= 1
    /\ ret.move = NullMove
    /\ Len(getValidMoves(board, RED)) > 0

\* the legal BLACK moves that take a piece of the given type and colour
capturesOf(b, type, color) ==
    {m \in Range(getValidMoves(b, BLACK)) :
        getPieceAt(b, m.to) # Null /\ getPieceAt(b, m.to).type = type
                                   /\ getPieceAt(b, m.to).color = color}

allCaptures(b) == {m \in Range(getValidMoves(b, BLACK)) : getPieceAt(b, m.to) # Null}

\* C9: at depth 1 the move returned is a legal BLACK move with the least
\* static evaluation of the board after it; when just one legal BLACK move
\* takes a RED Rook and no legal move takes anything else, it is that move.
C9_DepthOne ==
    (lastOp = "getBestMove" /\ arg = 1 /\ Len(getValidMoves(board, BLACK)) > 0) =>
        /\ ret.move \in Range(getValidMoves(board, BLACK))
        /\ \A m \in Range(getValidMoves(board, BLACK)) :
              evaluateBoard(simulateMove(board, ret.move)) <= evaluateBoard(simulateMove(board, m))
        /\ (Cardinality(capturesOf(board, ROOK, RED)) = 1 /\ allCaptures(board) = capturesOf(board, ROOK, RED))
              => ret.move \in capturesOf(board, ROOK, RED)

\* the only capture is that of a RED Rook, and a BLACK Soldier could cross the river
C9_Witness ==
    /\ lastOp = "getBestMove"
    /\ arg = 1
    /\ Cardinality(capturesOf(board, ROOK, RED)) = 1
    /\ allCaptures(board) = capturesOf(board, ROOK, RED)
    /\ ret.move \in capturesOf(board, ROOK, RED)
    /\ \E m \in Range(getValidMoves(board, BLACK)) :
          getPieceAt(board, m.from).type = SOLDIER /\ m.from.y = 4 /\ m.to.y = 5

\* C10: the board parsed from the FEN text of a board holds in every cell a
\* piece of the same type and colour, or nothing where the board has nothing.
C10_RoundTrip ==
    lastOp = "fenToBoard" =>
        /\ arg = boardToFen(board, turn)
        /\ IsBoard(ret)
        /\ \A c \in allPos :
              /\ ret[c.y][c.x].type = board[c.y][c.x].type
              /\ ret[c.y][c.x].color = board[c.y][c.x].color
              /\ (ret[c.y][c.x] = Null) <=> (board[c.y][c.x] = Null)

\* the opening layout, parsed back with new ids
C10_Witness ==
    /\ lastOp = "fenToBoard"
    /\ pieceCount(board) > CrowdedPieces
    /\ \E c \in allPos : board[c.y][c.x] # Null /\ ret[c.y][c.x].id # board[c.y][c.x].id

\* "rnbakabnr/9/1c5c1/p1p1p1p1p/9/9/P1P1P1P1P/1C5C1/9/RNBAKABNR w - - 0 1"
InitialFen ==
    <<"r", "n", "b", "a", "k", "a", "b", "n", "r", "/", "9", "/",
      "1", "c", "5", "c", "1", "/", "p", "1", "p", "1", "p", "1", "p", "1", "p", "/",
      "9", "/", "9", "/", "P", "1", "P", "1", "P", "1", "P", "1", "P", "/",
      "1", "C", "5", "C", "1", "/", "9", "/", "R", "N", "B", "A", "K", "A", "B", "N", "R",
      " ", "w", " ", "-", " ", "-", " ", "0", " ", "1">>

\* C11: the FEN text of the board createInitialBoard returns, RED to move,
\* is "rnbakabnr/9/1c5c1/p1p1p1p1p/9/9/P1P1P1P1P/1C5C1/9/RNBAKABNR w - - 0 1".
C11_InitialFen ==
    (lastOp = "boardToFen" /\ turn = RED /\ \E run \in RandomRuns : board = createInitialBoard(run))
        => ret = InitialFen

\* boardToFen was called on the new board of either run of the generator
C11_Witness ==
    /\ lastOp = "boardToFen"
    /\ turn = RED
    /\ ply = 0
    /\ board = createInitialBoard(1)
    /\ Len(ret) = 69

\* C12: on a board without a General of the colour asked about, isCheck
\* returns true, whatever else is on the board.
C12_MissingGeneral ==
    (lastOp = "isCheck" /\ generalCount(board, arg) = 0) => ret = TRUE

\* the colour's General was taken in play while the other side has pieces
\* left that attack nothing
C12_Witness ==
    /\ lastOp = "isCheck"
    /\ ply >= 1
    /\ generalCount(board, arg) = 0
    /\ generalCount(board, Other(arg)) = 1
    /\ pieceCount(board) >= 3
    /\ ret = TRUE

\* the cell of the board at a position, nothing for a position off the board
cellAt(b, pos) == IF pos \in allPos THEN b[pos.y][pos.x] ELSE Null

\* one of the four basic conditions fails for the move and the colour
NoOwnPieceAtFrom(b, m, color) == cellAt(b, m.from) = Null \/ cellAt(b, m.from).color # color
ToOffBoard(m) == m.to \notin allPos
SameSquare(m) == m.from = m.to
OwnPieceAtTo(b, m, color) == cellAt(b, m.to) # Null /\ cellAt(b, m.to).color = color

BasicFails(b, m, color) ==
    NoOwnPieceAtFrom(b, m, color) \/ ToOffBoard(m) \/ SameSquare(m) \/ OwnPieceAtTo(b, m, color)

\* C13: isValidMove returns false, and indexes the board only inside the
\* grid, when from holds no piece of the colour, to is off the board, from
\* and to are the same square or to holds a piece of the colour.
C13_BasicChecks ==
    (lastOp = "isValidMove" /\ BasicFails(board, arg, turn)) =>
        /\ ret = FALSE
        /\ indexedByIsValidMove(board, arg, turn) \subseteq allPos

\* a Rook of the side to move is sent along its file to a square off the board
C13_Witness ==
    /\ lastOp = "isValidMove"
    /\ cellAt(board, arg.from).type = ROOK
    /\ cellAt(board, arg.from).color = turn
    /\ arg.to.x = arg.from.x
    /\ arg.to.y < 0
    /\ ret = FALSE

\* isValidMove was asked, RED to move, about the move on the new board
AskedOnInitialBoard(m) ==
    /\ lastOp = "isValidMove"
    /\ turn = RED
    /\ board = createInitialBoard(0)
    /\ arg = m

\* the occupied cells strictly between two cells of one row or one column
occupiedBetween(b, p, q) ==
    {c \in allPos :
        /\ b[c.y][c.x] # Null
        /\ \/ (p.x = q.x /\ c.x = p.x /\ ((p.y < c.y /\ c.y < q.y) \/ (q.y < c.y /\ c.y < p.y)))
           \/ (p.y = q.y /\ c.y = p.y /\ ((p.x < c.x /\ c.x < q.x) \/ (q.x < c.x /\ c.x < p.x)))}

\* C14 as stated: on the new board the RED Cannon move from (1,7) to (1,0)
\* is rejected.
C14_Original ==
    AskedOnInitialBoard(Mv(Pos(1, 7), Pos(1, 0))) => ret = FALSE

\* C14: on the new board the RED Cannon move from (1,7) to (1,0) is
\* accepted: it takes the BLACK Horse over one screen, the BLACK Cannon.
C14_CannonTakesHorse ==
    AskedOnInitialBoard(Mv(Pos(1, 7), Pos(1, 0))) => ret = TRUE

\* the move was asked about: a RED Cannon, a BLACK Horse and the BLACK
\* Cannon at (1,2) as the one piece between them
C14_Witness ==
    /\ AskedOnInitialBoard(Mv(Pos(1, 7), Pos(1, 0)))
    /\ board[7][1].type = CANNON /\ board[7][1].color = RED
    /\ board[0][1].type = HORSE /\ board[0][1].color = BLACK
    /\ occupiedBetween(board, Pos(1, 7), Pos(1, 0)) = {Pos(1, 2)}
    /\ board[2][1].type = CANNON /\ board[2][1].color = BLACK

\* C15 as stated: on the new board the RED Horse move from (1,9) to (0,7)
\* is rejected.
C15_Original ==
    AskedOnInitialBoard(Mv(Pos(1, 9), Pos(0, 7))) => ret = FALSE

\* C15: on the new board the RED Horse move from (1,9) to (0,7) is
\* accepted: its leg square (1,8) and the square (0,7) are empty.
C15_HorseToEdge ==
    AskedOnInitialBoard(Mv(Pos(1, 9), Pos(0, 7))) => ret = TRUE

\* the move was asked about: a RED Horse, with nothing on (1,8) and (0,7)
\* and the RED Rook beside it on (0,9)
C15_Witness ==
    /\ AskedOnInitialBoard(Mv(Pos(1, 9), Pos(0, 7)))
    /\ board[9][1].type = HORSE /\ board[9][1].color = RED
    /\ board[8][1] = Null
    /\ board[7][0] = Null
    /\ board[9][0] # Null

\* the four basic conditions hold for the move and the colour
BasicHolds(b, m, color) ==
    m.from \in allPos /\ m.to \in allPos /\ ~BasicFails(b, m, color)

\* isValidMove was asked about a move of a piece of the type that passes the
\* basic conditions
AskedAbout(type) ==
    /\ lastOp = "isValidMove"
    /\ BasicHolds(board, arg, turn)
    /\ cellAt(board, arg.from).type = type

SameLine(m) == m.from.x = m.to.x \/ m.from.y = m.to.y

\* C16: a Cannon move that passes the basic conditions is accepted exactly
\* when from and to share a row or a column and the occupied cells strictly
\* between them number 0 for an empty to and 1 for a to with an enemy piece.
C16_CannonRule ==
    AskedAbout(CANNON) =>
        (ret <=> /\ SameLine(arg)
                 /\ Cardinality(occupiedBetween(board, arg.from, arg.to))
                        = (IF cellAt(board, arg.to) = Null THEN 0 ELSE 1))

\* a Cannon takes over a screen of its own colour
C16_Witness ==
    /\ AskedAbout(CANNON)
    /\ cellAt(board, arg.to) # Null
    /\ \E c \in occupiedBetween(board, arg.from, arg.to) : board[c.y][c.x].color = turn
    /\ ret = TRUE

Sign(n) == IF n > 0 THEN 1 ELSE IF n < 0 THEN -1 ELSE 0

LShape(m) ==
    \/ (Abs(m.to.x - m.from.x) = 1 /\ Abs(m.to.y - m.from.y) = 2)
    \/ (Abs(m.to.x - m.from.x) = 2 /\ Abs(m.to.y - m.from.y) = 1)

\* the cell next to from, one step along the axis of the two-step displacement
LegSquare(m) ==
    IF Abs(m.to.x - m.from.x) = 2
    THEN Pos(m.from.x + Sign(m.to.x - m.from.x), m.from.y)
    ELSE Pos(m.from.x, m.from.y + Sign(m.to.y - m.from.y))

\* C17: a Horse move that passes the basic conditions is accepted exactly
\* when it is an L-shape and its leg square is empty; on the new board the
\* RED Horse move from (1,9) to (2,7) is accepted.
C17_HorseRule ==
    /\ AskedAbout(HORSE) =>
          (ret <=> (LShape(arg) /\ cellAt(board, LegSquare(arg)) = Null))
    /\ AskedOnInitialBoard(Mv(Pos(1, 9), Pos(2, 7))) => ret = TRUE

\* an L-shaped Horse move to an empty square is rejected for its leg
C17_Witness ==
    /\ AskedAbout(HORSE)
    /\ LShape(arg)
    /\ cellAt(board, arg.to) = Null
    /\ cellAt(board, LegSquare(arg)) # Null
    /\ ret = FALSE

Forward(color) == IF color = RED THEN -1 ELSE 1

\* the Soldier stands beyond the river: RED on rows 0-4, BLACK on rows 5-9
Crossed(color, y) == IF color = RED THEN y \in 0..4 ELSE y \in 5..9

\* one step straight forward, or, beyond the river, one step sideways
SoldierStep(b, m) ==
    LET color == cellAt(b, m.from).color
    IN  \/ (m.to.x = m.from.x /\ m.to.y = m.from.y + Forward(color))
        \/ (Crossed(color, m.from.y) /\ m.to.y = m.from.y /\ Abs(m.to.x - m.from.x) = 1)

soldiersOf(b) == {c \in allPos : b[c.y][c.x] # Null /\ b[c.y][c.x].type = SOLDIER}

\* the Soldier of cell c of board b is not further back on board b2
NotBackward(b, c, b2) ==
    \A d \in allPos :
        (b2[d.y][d.x] # Null /\ b2[d.y][d.x].id = b[c.y][c.x].id) =>
            (IF b[c.y][c.x].color = RED THEN d.y <= c.y ELSE d.y >= c.y)

\* C18: a Soldier move that passes the basic conditions is accepted exactly
\* when it is one step forward or, for a Soldier that has crossed the
\* river, one step sideways; so no Soldier is further back after a move
\* that was accepted than it was before.
C18_SoldierRule ==
    /\ AskedAbout(SOLDIER) => (ret <=> SoldierStep(board, arg))
    /\ lastOp = "move" => \A c \in soldiersOf(ret) : NotBackward(ret, c, board)

\* after a first move, a Soldier beyond the river has stepped sideways
C18_Witness ==
    /\ lastOp = "move"
    /\ ply = 2
    /\ cellAt(ret, arg.from).type = SOLDIER
    /\ Crossed(cellAt(ret, arg.from).color, arg.from.y)
    /\ arg.to.y = arg.from.y
    /\ cellAt(board, arg.to).id = cellAt(ret, arg.from).id

\* the row is on the colour's own side of the river
OwnSide(color, y) == IF color = BLACK THEN y \in 0..4 ELSE y \in 5..9

Midpoint(m) == Pos((m.from.x + m.to.x) \div 2, (m.from.y + m.to.y) \div 2)

TwoDiagonal(m) == Abs(m.to.x - m.from.x) = 2 /\ Abs(m.to.y - m.from.y) = 2

piecesOf(b, types) == {c \in allPos : b[c.y][c.x] # Null /\ b[c.y][c.x].type \in types}

\* C19: an Elephant move that passes the basic conditions is accepted
\* exactly when it is two steps diagonally, its midpoint is empty and its
\* destination is on the mover's side of the river; so no Elephant is ever
\* across the river.
C19_ElephantRule ==
    /\ AskedAbout(ELEPHANT) =>
          (ret <=> /\ TwoDiagonal(arg)
                   /\ cellAt(board, Midpoint(arg)) = Null
                   /\ OwnSide(turn, arg.to.y))
    /\ \A c \in piecesOf(board, {ELEPHANT}) : OwnSide(board[c.y][c.x].color, c.y)

\* an Elephant at the river is refused a two-step diagonal with an empty
\* midpoint to an empty cell across the river
C19_Witness ==
    /\ AskedAbout(ELEPHANT)
    /\ TwoDiagonal(arg)
    /\ cellAt(board, Midpoint(arg)) = Null
    /\ cellAt(board, arg.to) = Null
    /\ ~OwnSide(turn, arg.to.y)
    /\ ret = FALSE

\* the cell is in the colour's palace: columns 3-5, BLACK rows 0-2, RED rows 7-9
InPalace(color, p) ==
    p.x \in 3..5 /\ (IF color = BLACK THEN p.y \in 0..2 ELSE p.y \in 7..9)

OneOrthogonal(m) == Abs(m.to.x - m.from.x) + Abs(m.to.y - m.from.y) = 1

OneDiagonal(m) == Abs(m.to.x - m.from.x) = 1 /\ Abs(m.to.y - m.from.y) = 1

\* C20: a General move that passes the basic conditions is accepted only as
\* one orthogonal step, an Advisor move only as one diagonal step, both only
\* into the mover's palace, and every such step is accepted; so no General
\* and no Advisor is ever outside its palace.
C20_PalaceRule ==
    /\ AskedAbout(GENERAL) => (ret <=> (OneOrthogonal(arg) /\ InPalace(turn, arg.to)))
    /\ AskedAbout(ADVISOR) => (ret <=> (OneDiagonal(arg) /\ InPalace(turn, arg.to)))
    /\ \A c \in piecesOf(board, {GENERAL, ADVISOR}) : InPalace(board[c.y][c.x].color, c)

\* a General on the front row of its palace is refused the step forward,
\* out of the palace, to an empty cell
C20_Witness ==
    /\ AskedAbout(GENERAL)
    /\ OneOrthogonal(arg)
    /\ arg.to.x = arg.from.x
    /\ ~InPalace(turn, arg.to)
    /\ cellAt(board, arg.to) = Null
    /\ ret = FALSE

\* a side with no legal moves that is in check
Checkmated(b, color) == Len(getValidMoves(b, color)) = 0 /\ isCheck(b, color)

\* what a piece of the type and colour on (x, y) adds to or takes from the
\* static evaluation
pieceWeight(type, color, x, y) ==
    PIECE_VALUES(type) + getPositionBonus([type |-> type, color |-> color], x, y)

\* C22: minimax with depth >= 1 on a side that is in check with no legal
\* moves returns move null and score -100000 for RED, +100000 for BLACK; this
\* is more than the static evaluation of any board with one General of each
\* colour can be, as the two Generals cancel and the 88 other cells weigh less
\* than 100000 together, whatever stands on them.
C22_MateScore ==
    /\ (lastOp = "minimax" /\ arg >= 1 /\ Checkmated(board, turn)) =>
          ret = [score |-> IF turn = RED THEN -100000 ELSE 100000, move |-> NullMove]
    /\ \A c \in allPos, type \in PieceTypes \ {GENERAL}, color \in {RED, BLACK} :
          88 * pieceWeight(type, color, c.x, c.y) < 100000
    /\ \A c \in allPos : pieceWeight(GENERAL, RED, c.x, c.y) = pieceWeight(GENERAL, BLACK, c.x, c.y)
    /\ (generalCount(board, RED) = 1 /\ generalCount(board, BLACK) = 1) =>
          Abs(evaluateBoard(board)) < 100000
    /\ (lastOp = "minimax" /\ arg = 0) => Abs(ret.score) < 100000

\* RED, to move at the root of a search of depth >= 1, is checkmated
C22_Witness ==
    /\ lastOp = "minimax"
    /\ arg >= 1
    /\ turn = RED
    /\ Checkmated(board, RED)
    /\ ret.score = -100000

\* C23 as stated: whenever the side to move at a node of the search has no
\* legal moves, the node is scored as a loss for that side, as getGameStatus
\* declares it, and never 0.
C23_Original ==
    (lastOp = "minimax" /\ arg >= 1 /\ Len(getValidMoves(board, turn)) = 0) =>
        /\ ret.score = (IF turn = RED THEN -MATE_SCORE ELSE MATE_SCORE)
        /\ getGameStatus(board, turn) = (IF turn = RED THEN BLACK_WIN ELSE RED_WIN)

\* the move leaves RED checkmated
MatesRed(b, m) == Checkmated(simulateMove(b, m), RED)

MateInOne(b) == \E m \in Range(getValidMoves(b, BLACK)) : MatesRed(b, m)

\* C24 as stated: at every depth >= 2 getBestMove returns a move that mates at
\* once when BLACK has one.
C24_Original ==
    (lastOp = "minimax" /\ turn = BLACK /\ arg >= 2 /\ MateInOne(board)) =>
        (ret.move # NullMove /\ MatesRed(board, ret.move))

\* C24: when BLACK has a legal move that checkmates RED, getBestMove with
\* depth 2 or 3 returns a move that checkmates at once.
C24_MateInOne ==
    (lastOp = "minimax" /\ turn = BLACK /\ arg \in {2, 3} /\ MateInOne(board)) =>
        (ret.move # NullMove /\ MatesRed(board, ret.move))

\* a mate in one was found while a capture that is no mate was on offer
C24_Witness ==
    /\ lastOp = "minimax"
    /\ turn = BLACK
    /\ arg = 3
    /\ ret.move # NullMove
    /\ MatesRed(board, ret.move)
    /\ \E m \in Range(getValidMoves(board, BLACK)) :
          getPieceAt(board, m.to) # Null /\ ~MatesRed(board, m)

\* C30: every call of countPiecesBetween made while isValidMove, isCheck,
\* getValidMoves, getGameStatus or getBestMove runs has two positions on one
\* row or on one column.
C30_AlignedCalls ==
    lastOp # "init" => \A call \in ret : call[1].x = call[2].x \/ call[1].y = call[2].y

\* a search in which countPiecesBetween was called along a row for a Rook or
\* a Cannon and along a column for the two Generals
C30_Witness ==
    /\ lastOp = "getBestMove"
    /\ \E call \in ret :
          /\ call[1].y = call[2].y
          /\ getPieceAt(board, call[1]) # Null
          /\ getPieceAt(board, call[1]).type \in {ROOK, CANNON}
    /\ \E call \in ret : call[1].x = call[2].x /\ call[1].y = 9 /\ call[2].y = 0

\* the frames of minimax on the stack, outermost first
minimaxFrames == SelectSeq(stack, LAMBDA f : f.fn = "minimax")

\* no call of getValidMoves is made, directly or through other calls, while
\* isCheck runs
CheckBelowMoves ==
    \A i, j \in 1..Len(stack) :
        (i < j /\ stack[i].fn = "isCheck") => stack[j].fn # "getValidMoves"

\* only minimax is on the stack more than once
OnlyMinimaxRecurses ==
    \A i, j \in 1..Len(stack) :
        (i < j /\ stack[i].fn = stack[j].fn) => stack[i].fn = "minimax"

\* under getBestMove(board, d) the k-th minimax frame has depth d - (k - 1),
\* never below 0: at most d plies of moves are searched
DepthCountsDown ==
    (stack # <<>> /\ stack[1].fn = "getBestMove") =>
        /\ \A k \in 1..Len(minimaxFrames) :
              minimaxFrames[k].depth = stack[1].depth - (k - 1) /\ minimaxFrames[k].depth >= 0
        /\ Len(minimaxFrames) <= stack[1].depth + 1

\* C29: every rules and search operation that is called returns; while isCheck
\* runs getValidMoves is never called, no function but minimax calls itself
\* directly or through others, and minimax called with depth d calls itself
\* only with depth d - 1 and not at all at depth 0, so that the search goes at
\* most d plies deep.
C29_Terminates ==
    /\ [](CheckBelowMoves /\ OnlyMinimaxRecurses /\ DepthCountsDown /\ Len(stack) < StackLimit)
    /\ [](lastOp = "call" => <>(lastOp = "returned"))

\* the search at its last ply, looking for check through isValidMove under
\* getValidMoves
C29_Witness ==
    /\ Len(stack) >= 6
    /\ stack[1] = [fn |-> "getBestMove", depth |-> MaxDepth, calls |-> 1]
    /\ Len(minimaxFrames) = MaxDepth
    /\ \E i \in 1..(Len(stack) - 2) :
          /\ stack[i].fn = "getValidMoves"
          /\ stack[i + 1].fn = "isCheck"
          /\ stack[i + 2].fn = "isValidMove"

\* a move was applied to the board of the App in the step that led here
MoveApplied == lastOp \in {"humanMove", "aiMove"}

\* the colour of the piece the applied move moved
moverOf == IF lastOp = "humanMove" THEN RED ELSE BLACK

\* C21 as stated: every move the App applies, by a click of RED or by the AI,
\* is in getValidMoves(board, side to move) of the board and side shown before
\* it, no board shown has the two Generals facing each other, and the side
\* that has just moved is not in check.
C21_Original ==
    /\ MoveApplied => arg \in Range(getValidMoves(ret.board, ret.turn))
    /\ ~areGeneralsFacing(board)
    /\ MoveApplied => ~isCheck(board, moverOf)

\* the AI's turn
AiTurn == turn = BLACK /\ gameStatus = PLAYING

\* what the timer does when it fires on the AI's turn
AiStep ==
    (AiTurn /\ lastOp' \in {"aiMove", "aiNoMove"}) =>
        \E best \in {getBestMove(board, AiDepth)} :
            IF best # NullMove
            THEN /\ lastOp' = "aiMove"
                 /\ arg' = best
                 /\ board' = simulateMove(board, best)
                 /\ getPieceAt(board, best.from).color = BLACK
                 /\ turn' = RED
            ELSE /\ gameStatus' = RED_WIN
                 /\ board' = board

\* C25: the game does not stay on the AI's turn (BLACK to move, PLAYING): the
\* turn ends, and unless restartGame ends it first it ends by the timer, which
\* is pending all through the turn and when it fires applies the one BLACK
\* move getBestMove(board, 3) returns and gives the turn to RED, or sets
\* RED_WIN when getBestMove returns null; in App.tsx a timer is pending on
\* the AI's turn alone.
C25_AiMoves ==
    /\ AiTurn ~> ~AiTurn
    /\ [](AiTurn => \E timer \in aiTimers :
                       aiTimers = {timer} /\ timer.board = board /\ timer.turn = BLACK)
    /\ []((aiTimers # {} /\ version # Part000) => AiTurn)
    /\ [][AiStep]_vars
    /\ [][(AiTurn /\ ~AiTurn') => lastOp' \in {"aiMove", "aiNoMove", "restart"}]_vars

\* the AI has answered a move of RED and the game goes on
C25_Witness ==
    /\ lastOp = "aiMove"
    /\ ret.turn = BLACK
    /\ turn = RED
    /\ gameStatus = PLAYING
    /\ aiTimers = {}

isInitialLayout(b) == boardToFen(b, RED) = InitialFen

\* C26 as stated: after restartGame the initial layout is shown with RED to
\* move and PLAYING, and the initial layout is left only by a move of RED.
C26_Original ==
    /\ [](lastOp = "restart" => (isInitialLayout(board) /\ turn = RED /\ gameStatus = PLAYING))
    /\ [][(isInitialLayout(board) /\ ~isInitialLayout(board')) => lastOp' = "humanMove"]_vars

\* C27 as stated: a click applies a move only when turn is RED, the AI only
\* when turn is BLACK, and each move applied flips the turn, so that the
\* moves alternate from RED on after every start and restart.
C27_Original ==
    [][/\ lastOp' = "humanMove" => (turn = RED /\ turn' = BLACK)
       /\ lastOp' = "aiMove" => (turn = BLACK /\ turn' = RED)]_vars

\* C28: the step that applies a move sets gameStatus to what getGameStatus
\* says of the new board and the side then to move, RED_WIN or BLACK_WIN when
\* that side has no legal moves; and while gameStatus is not PLAYING the board
\* is changed by restartGame alone.
C28_GameOver ==
    [][/\ lastOp' \in {"humanMove", "aiMove"} =>
             /\ gameStatus' = getGameStatus(board', turn')
             /\ gameStatus = PLAYING
       /\ (gameStatus # PLAYING /\ board' # board) => lastOp' = "restart"]_vars

\* the move of the AI has left RED without legal moves
C28_Witness ==
    /\ lastOp = "aiMove"
    /\ gameStatus = BLACK_WIN
    /\ Len(getValidMoves(board, RED)) = 0
    /\ aiTimers = {}

====
